---- MODULE Spec2Model ----
(***************************************************************************)
(* Lore-Book / lorekeeper: the year-sharded timeline store                 *)
(* (timeline_manager.py) and the week partitioner of the monthly arc       *)
(* engine (monthly_arc/monthly_engine.py).                                 *)
(*                                                                         *)
(* Strings that the code compares with < and > (event dates, query bounds) *)
(* are sequences of character codes, compared lexicographically as Python  *)
(* compares str values.  datetime.date values are day ordinals counted     *)
(* from 2024-01-01.                                                        *)
(***************************************************************************)
EXTENDS Integers, Sequences, FiniteSets, TLC

\* ---------------------------------------------------------------------
\* Bounds
\* ---------------------------------------------------------------------
\* most rows the store holds when a call that appends a row starts; add_event
\* is called below this bound, correct_event up to it
MaxRows == 2
\* last day ordinal a partition request may name (SpecPart)
MaxDay == 16

\* ---------------------------------------------------------------------
\* Python str / datetime primitives used by the code
\* ---------------------------------------------------------------------
\* code point of the decimal digit n
Digit(n) == 48 + n

IsDigit(c) == c >= 48 /\ c <= 57

DigitVal(c) == c - 48

\* a < b on Python str values (code point order, a proper prefix is smaller)
StrLt(a, b) ==
    \E k \in 1..Len(b) :
        /\ \A j \in 1..(k - 1) : j <= Len(a) /\ a[j] = b[j]
        /\ (k > Len(a) \/ a[k] < b[k])

\* bool(s) of a Python str
Truthy(s) == Len(s) > 0

IsLeap(y) == (y % 4 = 0 /\ y % 100 # 0) \/ y % 400 = 0

DaysInMonth(y, m) ==
    IF m = 2 THEN (IF IsLeap(y) THEN 29 ELSE 28)
    ELSE IF m \in {4, 6, 9, 11} THEN 30 ELSE 31

DaysInYear(y) == IF IsLeap(y) THEN 366 ELSE 365

RECURSIVE DaysBeforeMonth(_, _)
DaysBeforeMonth(y, m) ==
    IF m = 1 THEN 0 ELSE DaysBeforeMonth(y, m - 1) + DaysInMonth(y, m - 1)

RECURSIVE DaysBeforeYear(_)
DaysBeforeYear(y) ==
    IF y <= 2024 THEN 0 ELSE DaysBeforeYear(y - 1) + DaysInYear(y - 1)

\* date(y, m, d) as a day ordinal
Ordinal(y, m, d) == DaysBeforeYear(y) + DaysBeforeMonth(y, m) + (d - 1)

RECURSIVE YmdFrom(_, _, _)
YmdFrom(y, m, n) ==
    IF n < DaysInMonth(y, m) THEN <<y, m, n + 1>>
    ELSE IF m = 12 THEN YmdFrom(y + 1, 1, n - DaysInMonth(y, m))
    ELSE YmdFrom(y, m + 1, n - DaysInMonth(y, m))

\* (year, month, day) of a day ordinal
Ymd(n) == YmdFrom(2024, 1, n)

\* date.isoformat(): "YYYY-MM-DD"
IsoFormatYmd(y, m, d) ==
    << Digit(y \div 1000), Digit((y \div 100) % 10), Digit((y \div 10) % 10),
       Digit(y % 10), 45, Digit(m \div 10), Digit(m % 10), 45,
       Digit(d \div 10), Digit(d % 10) >>

IsoFormat(n) == LET t == Ymd(n) IN IsoFormatYmd(t[1], t[2], t[3])

\* datetime.fromisoformat(s): <<year, month, day>> or <<>> for ValueError.
\* Accepted: "YYYY-MM-DD", "YYYYMMDD", and either followed by one separator
\* character and a two-digit hour "HH" (the shortest time-of-day suffix).
ParseFields(s, im, id, n) ==
    LET y == DigitVal(s[1]) * 1000 + DigitVal(s[2]) * 100
             + DigitVal(s[3]) * 10 + DigitVal(s[4])
        m == DigitVal(s[im]) * 10 + DigitVal(s[im + 1])
        d == DigitVal(s[id]) * 10 + DigitVal(s[id + 1])
        dateOk == /\ y >= 1
                  /\ m >= 1 /\ m <= 12
                  /\ d >= 1 /\ d <= DaysInMonth(y, m)
        timeOk == \/ Len(s) = n
                  \/ /\ Len(s) = n + 3
                     /\ IsDigit(s[n + 2]) /\ IsDigit(s[n + 3])
                     /\ DigitVal(s[n + 2]) * 10 + DigitVal(s[n + 3]) <= 23
    IN IF dateOk /\ timeOk THEN <<y, m, d>> ELSE <<>>

FromIsoformat(s) ==
    IF /\ Len(s) >= 10
       /\ \A i \in {1, 2, 3, 4, 6, 7, 9, 10} : IsDigit(s[i])
       /\ s[5] = 45 /\ s[8] = 45
    THEN ParseFields(s, 6, 9, 10)
    ELSE IF Len(s) >= 8 /\ \A i \in 1..8 : IsDigit(s[i])
    THEN ParseFields(s, 5, 7, 8)
    ELSE <<>>

\* ---------------------------------------------------------------------
\* TimelineEvent records and the inputs of the model
\* ---------------------------------------------------------------------
\* metadata mappings: a function from the keys present to their values
NoMeta == [k \in {} |-> ""]

Meta(k, v) == [x \in {k} |-> v]

\* the falsy source of an event whose caller left source unset
Unset == ""

TimelineEvent(id, date, title, type, details, tags, source, metadata, archived) ==
    [id |-> id, date |-> date, title |-> title, type |-> type,
     details |-> details, tags |-> tags, source |-> source,
     metadata |-> metadata, archived |-> archived]

\* "2024-12-30", "2025-01-02", "2025-01-05" and "2025-01-02T10"
D1230 == IsoFormatYmd(2024, 12, 30)

D0102 == IsoFormatYmd(2025, 1, 2)

D0105 == IsoFormatYmd(2025, 1, 5)

D0102T10 == D0102 \o <<84, Digit(1), Digit(0)>>

\* "someday": not an ISO-8601 date
BadDate == <<115, 111, 109, 101, 100, 97, 121>>

\* events callers hand to add_event and correct_event
EvA == TimelineEvent(1, D1230, "A", "note", "a", <<"x">>, "user_entry",
                     Meta("sentiment", "positive"), FALSE)

EvB == TimelineEvent(1, D0102, "B", "note", "", <<>>, Unset, NoMeta, FALSE)

EvC == TimelineEvent(2, D0102T10, "C", "work", "c", <<"x", "y">>, Unset,
                     Meta("tone", "tired"), FALSE)

EvD == TimelineEvent(2, D0105, "D", "work", "", <<"y">>, "user_entry",
                     NoMeta, TRUE)

EvBad == TimelineEvent(3, BadDate, "E", "note", "", <<>>, Unset, NoMeta, FALSE)

EventPool == {EvA, EvB, EvC, EvD, EvBad}

\* replacements callers hand to correct_event
CorrectPool == {EvA, EvC, EvD, EvBad}

\* ids callers pass to archive_event and correct_event
Ids == {1, 2}

\* years a shard file can exist for
Years == {2024, 2025}

\* arguments of get_events; year is <<>> when omitted, else <<year>>;
\* start_date and end_date are "" (here <<>>) when omitted
QueryYears == {<<>>, <<2024>>, <<2025>>}

QueryDates == {<<>>, D0102, D0105}

QueryTags == {<<>>, <<"x">>, <<"y", "z">>}

QueryArgs(year, start_date, end_date, tags, include_archived) ==
    [year |-> year, start_date |-> start_date, end_date |-> end_date,
     tags |-> tags, include_archived |-> include_archived]

\* the get_events calls made in the sequential specifications
QueryPool ==
    { QueryArgs(<<>>, <<>>, <<>>, <<>>, FALSE),
      QueryArgs(<<>>, <<>>, <<>>, <<>>, TRUE),
      QueryArgs(<<2024>>, <<>>, <<>>, <<>>, FALSE),
      QueryArgs(<<2025>>, <<>>, D0102, <<>>, TRUE),
      QueryArgs(<<>>, D0102, D0105, <<"x">>, FALSE),
      QueryArgs(<<>>, D0102, <<>>, <<"y", "z">>, TRUE) }

VARIABLES
    files,      \* years whose shard file <year>.json exists
    shards,     \* year -> the rows stored in that shard file, in file order
    call,       \* the operation last called and its arguments
    ret,        \* what that call returned (or the error it raised)
    log,        \* history: year -> the records add_event appended, in order
    pc,         \* "idle", or "archived" inside a correct_event call
    pending,    \* the correct_event call in progress: id, event, rows hit
    orphan,     \* history: the rows an interrupted correct_event archived
    range,      \* _week_ranges arguments: start, end (ordinals), events
    cursor,     \* _week_ranges local
    week_index, \* _week_ranges local
    weeks,      \* _week_ranges local: the windows emitted so far
    wpc,        \* "off", "loop" or "done": position in _week_ranges
    proc,       \* concurrent callers: position, arguments and locals of each
    clock,      \* history: number of file writes made by concurrent callers
    request,    \* construct_month_arc arguments start_date and end_date
    collab,     \* the methods the weekly and the task collaborator expose
    epc,        \* position in construct_month_arc, "off" when not called
    month_data, \* construct_month_arc local: gather_month_events result
    weekly_arcs, \* synthesize_weekly_arcs local: the entries appended so far
    attempt,    \* _call_weekly_arc_engine: window at hand, call form tried next
    narrative,  \* construct_month_arc local
    themes,     \* construct_month_arc local
    epics,      \* construct_month_arc local
    drift,      \* construct_month_arc local
    tasks,      \* construct_month_arc local
    calls,      \* history: the collaborator methods entered, in order
    failure     \* the exception that left construct_month_arc, if any

storeVars == <<files, shards, call, ret, log, pc, pending, orphan>>

seqVars == <<call, ret, log, pc, pending, orphan>>

weekVars == <<range, cursor, week_index, weeks, wpc>>

concVars == <<proc, clock>>

arcVars == <<request, collab, epc, month_data, weekly_arcs, attempt,
             narrative, themes, epics, drift, tasks, calls, failure>>

vars == <<files, shards, call, ret, log, pc, pending, orphan,
          range, cursor, week_index, weeks, wpc, proc, clock,
          request, collab, epc, month_data, weekly_arcs, attempt,
          narrative, themes, epics, drift, tasks, calls, failure>>

\* ---------------------------------------------------------------------
\* TimelineManager (timeline_manager.py)
\* ---------------------------------------------------------------------
\* outcomes of a call: a returned value, the None sentinel, or ValueError
Returned(v) == [status |-> "ok", value |-> v]

NotFound == [status |-> "NotFound", value |-> <<>>]

DateParseError == [status |-> "DateParseError", value |-> <<>>]

NoCall == [op |-> "none"]

NoPending == [active |-> FALSE]

NoOrphan == [set |-> FALSE]

RECURSIVE SumLen(_, _)
SumLen(sh, S) ==
    IF S = {} THEN 0
    ELSE LET y == CHOOSE z \in S : TRUE IN Len(sh[y]) + SumLen(sh, S \ {y})

\* number of rows in the whole store
TotalRows(sh) == SumLen(sh, Years)

\* a _load_raw_year that writes "[]" whether or not the file exists
LoadRawYearTruncate(f, sh, year) ==
    [files |-> f \cup {year},
     shards |-> [sh EXCEPT ![year] = <<>>],
     events |-> <<>>]

\* _load_raw_year: a missing file is created with write_text("[]"); the file
\* set and file contents after the call, and the rows it returns
LoadRawYear(f, sh, year) ==
    [files |-> f \cup {year},
     shards |-> IF year \in f THEN sh ELSE [sh EXCEPT ![year] = <<>>],
     events |-> IF year \in f THEN sh[year] ELSE <<>>]

\* a save that keeps only the new record
AppendRowOverwrite(events, ev) == <<ev>>

\* events.append(asdict(event))
AppendRow(events, ev) == Append(events, ev)

\* a save that opens the file for appending and adds the buffer's last row
SaveYearAppendLast(current, events) ==
    IF events = <<>> THEN current ELSE Append(current, events[Len(events)])

\* _save_year: the file content after write_text, whatever it held before
SaveYear(current, events) == events

\* an add_event that files a record with an unreadable date under 2024
AddOutcomeDefaultYear(f, sh, ev) ==
    LET parsed == FromIsoformat(ev.date)
        event_year == IF parsed = <<>> THEN 2024 ELSE parsed[1]
        loaded == LoadRawYear(f, sh, event_year)
    IN [raised |-> FALSE, year |-> event_year,
        files |-> loaded.files,
        shards |-> [sh EXCEPT ![event_year] =
                       SaveYear(@, AppendRow(loaded.events, ev))]]

\* an add_event that files every event under the first year
AddOutcomeFirstYear(f, sh, ev) ==
    LET parsed == FromIsoformat(ev.date) IN
    IF parsed = <<>>
    THEN [raised |-> TRUE, year |-> 0, files |-> f, shards |-> sh]
    ELSE LET loaded == LoadRawYear(f, sh, 2024)
         IN [raised |-> FALSE, year |-> 2024,
             files |-> loaded.files,
             shards |-> [loaded.shards EXCEPT ![2024] =
                            SaveYear(@, AppendRow(loaded.events, ev))]]

\* add_event: the store after the call, or the ValueError of fromisoformat
AddOutcome(f, sh, ev) ==
    LET parsed == FromIsoformat(ev.date) IN
    IF parsed = <<>>
    THEN [raised |-> TRUE, files |-> f, shards |-> sh, year |-> 0]
    ELSE LET event_year == parsed[1]
             loaded == LoadRawYear(f, sh, event_year)
         IN [raised |-> FALSE, year |-> event_year,
             files |-> loaded.files,
             shards |-> [sh EXCEPT ![event_year] =
                            SaveYear(@, AppendRow(loaded.events, ev))]]

\* history of the appends add_event completed
Logged(l, out, ev) ==
    IF out.raised THEN l ELSE [l EXCEPT ![out.year] = Append(@, ev)]

\* every order in which base_path.glob("*.json") can list the files S
GlobOrders(S) ==
    {o \in [1..Cardinality(S) -> S] : \A i, j \in DOMAIN o : i # j => o[i] # o[j]}

\* sorted(base_path.glob("*.json")) as a sequence of years
RECURSIVE SortedYears(_)
SortedYears(S) ==
    IF S = {} THEN <<>>
    ELSE LET y == CHOOSE z \in S : \A w \in S : z <= w
         IN <<y>> \o SortedYears(S \ {y})

\* an archive that flips the flag
MarkArchivedToggle(item) == [item EXCEPT !.archived = ~item.archived]

\* an archive that sets the flag on a copy only
MarkArchivedNoop(item) == item

\* item["archived"] = True when it is not set yet
MarkArchived(item) ==
    IF ~item.archived THEN [item EXCEPT !.archived = TRUE] ELSE item

\* an archive_event that only matches rows not archived yet
ArchiveShardActiveOnly(events, event_id) ==
    LET hits == {i \in DOMAIN events :
                    events[i].id = event_id /\ ~events[i].archived}
        updated == [i \in DOMAIN events |->
                       IF i \in hits THEN MarkArchived(events[i]) ELSE events[i]]
    IN [updated |-> updated,
        found |-> hits # {},
        archived_event |-> IF hits = {} THEN <<>>
                           ELSE updated[CHOOSE i \in hits : \A j \in hits : j <= i]]

\* the inner loop of archive_event over one shard: the rewritten rows and
\* archived_event, the last row whose id matched
ArchiveShard(events, event_id) ==
    LET updated == [i \in DOMAIN events |->
                       IF events[i].id = event_id THEN MarkArchived(events[i])
                       ELSE events[i]]
        hits == {i \in DOMAIN events : events[i].id = event_id}
    IN [updated |-> updated,
        found |-> hits # {},
        archived_event |-> IF hits = {} THEN <<>>
                           ELSE updated[CHOOSE i \in hits : \A j \in hits : j <= i]]

\* archive_event over the shard files in listing order `order`
RECURSIVE ArchiveOutcome(_, _, _)
ArchiveOutcome(sh, order, event_id) ==
    IF order = <<>> THEN [found |-> FALSE, shards |-> sh]
    ELSE LET year == Head(order)
             scan == ArchiveShard(sh[year], event_id)
         IN IF scan.found
            THEN [found |-> TRUE, year |-> year,
                  shards |-> [sh EXCEPT ![year] = SaveYear(@, scan.updated)],
                  archived_event |-> scan.archived_event]
            ELSE ArchiveOutcome(sh, Tail(order), event_id)

\* the replacement correct_event stores: source forced when it is falsy
Corrected(corrected_event) ==
    IF corrected_event.source = Unset
    THEN TimelineEvent(corrected_event.id, corrected_event.date,
                       corrected_event.title, corrected_event.type,
                       corrected_event.details, corrected_event.tags,
                       "correction", NoMeta, corrected_event.archived)
    ELSE corrected_event

\* an in_range whose end bound is exclusive
InRangeExclusiveEnd(event, start_date, end_date, tags, include_archived) ==
    IF ~include_archived /\ event.archived THEN FALSE
    ELSE IF Len(tags) > 0
            /\ {tags[i] : i \in DOMAIN tags}
                 \cap {event.tags[i] : i \in DOMAIN event.tags} = {}
         THEN FALSE
    ELSE IF Truthy(start_date) /\ StrLt(event.date, start_date) THEN FALSE
    ELSE IF Truthy(end_date) /\ ~StrLt(event.date, end_date) THEN FALSE
    ELSE TRUE

\* in_range of get_events
InRange(event, start_date, end_date, tags, include_archived) ==
    IF ~include_archived /\ event.archived THEN FALSE
    ELSE IF Len(tags) > 0
            /\ {tags[i] : i \in DOMAIN tags}
                 \cap {event.tags[i] : i \in DOMAIN event.tags} = {}
         THEN FALSE
    ELSE IF Truthy(start_date) /\ StrLt(event.date, start_date) THEN FALSE
    ELSE IF Truthy(end_date) /\ StrLt(end_date, event.date) THEN FALSE
    ELSE TRUE

RECURSIVE Concat(_, _)
Concat(sh, order) ==
    IF order = <<>> THEN <<>> ELSE sh[Head(order)] \o Concat(sh, Tail(order))

\* the candidates get_events loads: one shard, or all shards in sorted order
Candidates(f, sh, year) ==
    IF year # <<>> THEN LoadRawYear(f, sh, year[1]).events
    ELSE Concat(sh, SortedYears(f))

RECURSIVE Filter(_, _, _, _, _)
Filter(cands, start_date, end_date, tags, include_archived) ==
    IF cands = <<>> THEN <<>>
    ELSE (IF InRange(Head(cands), start_date, end_date, tags, include_archived)
          THEN <<Head(cands)>> ELSE <<>>)
         \o Filter(Tail(cands), start_date, end_date, tags, include_archived)

\* the list get_events returns
GetEvents(f, sh, year, start_date, end_date, tags, include_archived) ==
    Filter(Candidates(f, sh, year), start_date, end_date, tags, include_archived)

\* get_events() with default arguments
DefaultQuery == GetEvents(files, shards, <<>>, <<>>, <<>>, <<>>, FALSE)

WeekOff ==
    /\ range = [start |-> 0, end |-> 0, events |-> <<>>]
    /\ cursor = 0
    /\ week_index = 1
    /\ weeks = <<>>
    /\ wpc = "off"

StoreInit ==
    /\ files = {}
    /\ shards = [y \in Years |-> <<>>]
    /\ call = NoCall
    /\ ret = NotFound
    /\ log = [y \in Years |-> <<>>]
    /\ pc = "idle"
    /\ pending = NoPending
    /\ orphan = NoOrphan

AddEvent ==
    /\ pc = "idle"
    /\ \E ev \in EventPool :
        LET out == AddOutcome(files, shards, ev) IN
        /\ out.raised \/ TotalRows(shards) < MaxRows
        /\ call' = [op |-> "add", event |-> ev]
        /\ files' = out.files
        /\ shards' = out.shards
        /\ ret' = IF out.raised THEN DateParseError ELSE Returned(ev)
        /\ log' = Logged(log, out, ev)
    /\ UNCHANGED <<pc, pending, orphan>>

QueryEvents ==
    /\ pc = "idle"
    /\ \E q \in QueryPool :
        /\ call' = [op |-> "query", args |-> q]
        /\ files' = IF q.year # <<>>
                    THEN LoadRawYear(files, shards, q.year[1]).files
                    ELSE files
        /\ shards' = IF q.year # <<>>
                     THEN LoadRawYear(files, shards, q.year[1]).shards
                     ELSE shards
        /\ ret' = Returned(GetEvents(files, shards, q.year, q.start_date,
                                     q.end_date, q.tags, q.include_archived))
    /\ UNCHANGED <<log, pc, pending, orphan>>

ArchiveEvent ==
    /\ pc = "idle"
    /\ \E event_id \in Ids, order \in GlobOrders(files) :
        LET out == ArchiveOutcome(shards, order, event_id) IN
        /\ call' = [op |-> "archive", id |-> event_id,
                    changed |-> out.shards # shards]
        /\ shards' = out.shards
        /\ ret' = IF out.found THEN Returned(out.archived_event) ELSE NotFound
    /\ UNCHANGED <<files, log, pc, pending, orphan>>

\* a correct_event without the None check
CorrectOutcomeNoCheck(f, sh, order, event_id, corrected_event) ==
    LET original == ArchiveOutcome(sh, order, event_id)
        corrected == Corrected(corrected_event)
        out == AddOutcome(f, original.shards, corrected)
    IN [found |-> TRUE, raised |-> out.raised, year |-> out.year,
        files |-> out.files, shards |-> out.shards, corrected |-> corrected]

\* correct_event: archive_event, the None check, then add_event
CorrectOutcome(f, sh, order, event_id, corrected_event) ==
    LET original == ArchiveOutcome(sh, order, event_id)
        corrected == Corrected(corrected_event)
        out == AddOutcome(f, original.shards, corrected)
    IN IF ~original.found
       THEN [found |-> FALSE, raised |-> FALSE, year |-> 0,
             files |-> f, shards |-> sh, corrected |-> corrected]
       ELSE [found |-> TRUE, raised |-> out.raised, year |-> out.year,
             files |-> out.files, shards |-> out.shards,
             corrected |-> corrected]

CorrectEvent ==
    /\ pc = "idle"
    /\ \E event_id \in Ids, ev \in CorrectPool, order \in GlobOrders(files) :
        LET out == CorrectOutcome(files, shards, order, event_id, ev) IN
        /\ ~out.found \/ out.raised \/ TotalRows(shards) <= MaxRows
        /\ call' = [op |-> "correct", id |-> event_id, event |-> ev]
        /\ files' = out.files
        /\ shards' = out.shards
        /\ ret' = IF ~out.found THEN NotFound
                  ELSE IF out.raised THEN DateParseError
                  ELSE Returned(out.corrected)
        /\ log' = IF out.found THEN Logged(log, out, out.corrected) ELSE log
    /\ UNCHANGED <<pc, pending, orphan>>

\* correct_event up to the return of archive_event
CorrectBegin ==
    /\ pc = "idle"
    /\ \E event_id \in Ids, ev \in CorrectPool, order \in GlobOrders(files) :
        LET original == ArchiveOutcome(shards, order, event_id) IN
        /\ call' = [op |-> "correct", id |-> event_id, event |-> ev]
        /\ IF ~original.found
           THEN /\ ret' = NotFound
                /\ UNCHANGED <<shards, pc, pending>>
           ELSE /\ TotalRows(shards) <= MaxRows
                /\ shards' = original.shards
                /\ pc' = "archived"
                /\ pending' = [active |-> TRUE, event |-> ev,
                               year |-> original.year,
                               hits |-> {i \in DOMAIN shards[original.year] :
                                          shards[original.year][i].id = event_id}]
                /\ UNCHANGED ret
    /\ UNCHANGED <<files, log, orphan>>

\* correct_event from the return of archive_event to its own return
CorrectFinish ==
    /\ pc = "archived"
    /\ LET corrected == Corrected(pending.event)
           out == AddOutcome(files, shards, corrected)
       IN /\ files' = out.files
          /\ shards' = out.shards
          /\ ret' = IF out.raised THEN DateParseError ELSE Returned(corrected)
          /\ log' = Logged(log, out, corrected)
    /\ pc' = "idle"
    /\ pending' = NoPending
    /\ UNCHANGED <<call, orphan>>

\* the process stops between the archive write and the append write; the
\* store stays as it is and later calls come from a new process
Crash ==
    /\ pc = "archived"
    /\ ~orphan.set
    /\ pc' = "idle"
    /\ pending' = NoPending
    /\ orphan' = [set |-> TRUE, year |-> pending.year, hits |-> pending.hits,
                  rows |-> TotalRows(shards)]
    /\ call' = [op |-> "crash"]
    /\ UNCHANGED <<files, shards, ret, log>>

\* ---------------------------------------------------------------------
\* MonthlyArcEngine._week_ranges (monthly_arc/monthly_engine.py)
\* ---------------------------------------------------------------------
\* first day a partition request may name: 2024-12-22
FirstDay == Ordinal(2024, 12, 22)

\* a <= b <= c on str values
StrBetween(a, b, c) == ~StrLt(b, a) /\ ~StrLt(c, b)

Min(a, b) == IF a <= b THEN a ELSE b

\* a window end that is not clamped to end
WeekEndUnclamped(c, end) == c + 6

\* week_end = min(cursor + timedelta(days=6), end)
WeekEnd(c, end) == Min(c + 6, end)

\* events_in_week
EventsInWeek(events, c, week_end) ==
    SelectSeq(events, LAMBDA event :
        StrBetween(IsoFormat(c), event.date, IsoFormat(week_end)))

\* f"Week {week_index} ({cursor.isoformat()} to {week_end.isoformat()})"
WeekLabel(i, c, week_end) == <<"Week", i, IsoFormat(c), IsoFormat(week_end)>>

\* event lists handed to _week_ranges
WeekEventLists == {<<>>, <<EvA, EvB, EvC>>, <<EvC, EvD, EvA>>}

WeekInit ==
    /\ \E s \in FirstDay..(FirstDay + MaxDay), e \in FirstDay..(FirstDay + MaxDay),
          evs \in WeekEventLists :
        /\ range = [start |-> s, end |-> e, events |-> evs]
        /\ cursor = s
    /\ week_index = 1
    /\ weeks = <<>>
    /\ wpc = "loop"

\* one iteration of the while loop
WeekStep ==
    /\ wpc = "loop"
    /\ cursor <= range.end
    /\ LET week_end == WeekEnd(cursor, range.end)
           events_in_week == EventsInWeek(range.events, cursor, week_end)
           label == WeekLabel(week_index, cursor, week_end)
       IN /\ weeks' = Append(weeks, [label |-> label, start |-> cursor,
                                     end |-> week_end,
                                     events |-> events_in_week])
          /\ week_index' = week_index + 1
          /\ cursor' = week_end + 1
    /\ UNCHANGED <<range, wpc>>

\* the loop condition fails: return weeks
WeekReturn ==
    /\ wpc = "loop"
    /\ cursor > range.end
    /\ wpc' = "done"
    /\ UNCHANGED <<range, cursor, week_index, weeks>>

\* ---------------------------------------------------------------------
\* Two callers on one base_path, interleaved at file system calls
\* ---------------------------------------------------------------------
Procs == {1, 2}

\* events and ids the concurrent callers pass
ConcEvents == {EvA, EvB, EvC, EvBad}

ConcIds == {1, 2}

AfterAdd(st, ev) ==
    LET out == AddOutcome(st.files, st.shards, ev)
    IN [files |-> out.files, shards |-> out.shards]

EmptyStore == [files |-> {}, shards |-> [y \in Years |-> <<>>]]

\* stores the concurrent callers start on: empty, and EvA, EvB, EvC added
ConcStores == {EmptyStore, AfterAdd(AfterAdd(AfterAdd(EmptyStore, EvA), EvB), EvC)}

Ready ==
    [pc |-> "ready", op |-> "none", id |-> 0, ev |-> EvBad, order |-> <<>>,
     year |-> 0, buf |-> <<>>, acc |-> <<>>, next |-> "none", res |-> NotFound,
     readAt |-> 0, wroteAt |-> 0]

ConcOff ==
    /\ proc = [p \in Procs |-> [Ready EXCEPT !.pc = "off"]]
    /\ clock = 0

ConcInit ==
    /\ \E st \in ConcStores : files = st.files /\ shards = st.shards
    /\ call = NoCall
    /\ ret = NotFound
    /\ log = [y \in Years |-> <<>>]
    /\ pc = "idle"
    /\ pending = NoPending
    /\ orphan = NoOrphan
    /\ proc = [p \in Procs |-> Ready]
    /\ clock = 0

\* add_event up to fromisoformat; also the add_event call of correct_event
EnterAdd(p, rec, ev) ==
    LET parsed == FromIsoformat(ev.date) IN
    IF parsed = <<>>
    THEN [rec EXCEPT !.pc = "done", !.ev = ev, !.res = DateParseError]
    ELSE [rec EXCEPT !.pc = "exists", !.ev = ev, !.year = parsed[1],
                     !.next = "add_save"]

StartAdd(p) ==
    /\ proc[p].pc = "ready"
    /\ \E ev \in ConcEvents :
        proc' = [proc EXCEPT ![p] = EnterAdd(p, [@ EXCEPT !.op = "add"], ev)]
    /\ UNCHANGED <<files, shards, clock>>

\* archive_event / correct_event: base_path.glob lists the shard files
StartArchive(p) ==
    /\ proc[p].pc = "ready"
    /\ \E event_id \in ConcIds, order \in GlobOrders(files) :
        proc' = [proc EXCEPT ![p] = [@ EXCEPT !.op = "archive", !.id = event_id,
                                       !.order = order, !.pc = "arch_next"]]
    /\ UNCHANGED <<files, shards, clock>>

StartCorrect(p) ==
    /\ proc[p].pc = "ready"
    /\ \E event_id \in ConcIds, ev \in ConcEvents, order \in GlobOrders(files) :
        proc' = [proc EXCEPT ![p] = [@ EXCEPT !.op = "correct", !.id = event_id,
                                       !.ev = ev, !.order = order,
                                       !.pc = "arch_next"]]
    /\ UNCHANGED <<files, shards, clock>>

\* get_events(year=...) or get_events(): the other arguments are defaults
StartQuery(p) ==
    /\ proc[p].pc = "ready"
    /\ \E year \in QueryYears :
        proc' = [proc EXCEPT ![p] =
                    IF year # <<>>
                    THEN [@ EXCEPT !.op = "query", !.year = year[1],
                                   !.pc = "exists", !.next = "query_ret"]
                    ELSE [@ EXCEPT !.op = "query",
                                   !.order = SortedYears(files),
                                   !.pc = "query_next"]]
    /\ UNCHANGED <<files, shards, clock>>

\* _load_raw_year: path.exists()
Exists(p) ==
    /\ proc[p].pc = "exists"
    /\ proc' = [proc EXCEPT ![p].pc =
                    IF proc[p].year \in files THEN "read" ELSE "create"]
    /\ UNCHANGED <<files, shards, clock>>

\* _load_raw_year: path.write_text("[]"); return []
Create(p) ==
    /\ proc[p].pc = "create"
    /\ files' = files \cup {proc[p].year}
    /\ shards' = [shards EXCEPT ![proc[p].year] = SaveYear(@, <<>>)]
    /\ clock' = clock + 1
    /\ proc' = [proc EXCEPT ![p] = [@ EXCEPT !.pc = proc[p].next, !.buf = <<>>,
                                       !.readAt = clock + 1]]

\* _load_raw_year: json.loads(path.read_text())
Read(p) ==
    /\ proc[p].pc = "read"
    /\ proc' = [proc EXCEPT ![p] = [@ EXCEPT !.pc = proc[p].next,
                                       !.buf = shards[proc[p].year],
                                       !.readAt = clock]]
    /\ UNCHANGED <<files, shards, clock>>

\* add_event: events.append; _save_year; return event
AddSave(p) ==
    /\ proc[p].pc = "add_save"
    /\ files' = files \cup {proc[p].year}
    /\ shards' = [shards EXCEPT ![proc[p].year] =
                      SaveYear(@, AppendRow(proc[p].buf, proc[p].ev))]
    /\ clock' = clock + 1
    /\ proc' = [proc EXCEPT ![p] = [@ EXCEPT !.pc = "done",
                                       !.res = Returned(proc[p].ev),
                                       !.wroteAt = clock + 1]]

\* archive_event: next path of the listing, or return None after the last
ArchNext(p) ==
    /\ proc[p].pc = "arch_next"
    /\ proc' = [proc EXCEPT ![p] =
                    IF proc[p].order = <<>>
                    THEN [@ EXCEPT !.pc = "done", !.res = NotFound]
                    ELSE [@ EXCEPT !.pc = "exists", !.next = "arch_scan",
                                   !.year = Head(proc[p].order),
                                   !.order = Tail(proc[p].order)]]
    /\ UNCHANGED <<files, shards, clock>>

\* archive_event: the loop over the rows it loaded
ArchScan(p) ==
    /\ proc[p].pc = "arch_scan"
    /\ LET scan == ArchiveShard(proc[p].buf, proc[p].id) IN
       proc' = [proc EXCEPT ![p] =
                   IF scan.found
                   THEN [@ EXCEPT !.pc = "arch_save", !.buf = scan.updated,
                                  !.res = Returned(scan.archived_event)]
                   ELSE [@ EXCEPT !.pc = "arch_next"]]
    /\ UNCHANGED <<files, shards, clock>>

\* an archive save after which only the saved year's file is left
ArchSaveDropsOthers(p) ==
    /\ proc[p].pc = "arch_save"
    /\ files' = {proc[p].year}
    /\ shards' = [y \in Years |->
                     IF y = proc[p].year THEN SaveYear(shards[y], proc[p].buf)
                     ELSE <<>>]
    /\ clock' = clock + 1
    /\ proc' = [proc EXCEPT ![p] =
                    IF proc[p].op = "archive"
                    THEN [@ EXCEPT !.pc = "done", !.wroteAt = clock + 1]
                    ELSE EnterAdd(p, [@ EXCEPT !.wroteAt = clock + 1],
                                  Corrected(proc[p].ev))]

\* archive_event: _save_year(year, updated); return, or go on in correct_event
ArchSave(p) ==
    /\ proc[p].pc = "arch_save"
    /\ files' = files \cup {proc[p].year}
    /\ shards' = [shards EXCEPT ![proc[p].year] = SaveYear(@, proc[p].buf)]
    /\ clock' = clock + 1
    /\ proc' = [proc EXCEPT ![p] =
                    IF proc[p].op = "archive"
                    THEN [@ EXCEPT !.pc = "done", !.wroteAt = clock + 1]
                    ELSE EnterAdd(p, [@ EXCEPT !.wroteAt = clock + 1],
                                  Corrected(proc[p].ev))]

\* get_events(): next shard of the sorted listing
QueryNext(p) ==
    /\ proc[p].pc = "query_next"
    /\ proc[p].order # <<>>
    /\ proc' = [proc EXCEPT ![p] = [@ EXCEPT !.pc = "exists",
                                       !.next = "query_extend",
                                       !.year = Head(proc[p].order),
                                       !.order = Tail(proc[p].order)]]
    /\ UNCHANGED <<files, shards, clock>>

\* get_events: candidates.extend(self.load_year(...))
QueryExtend(p) ==
    /\ proc[p].pc \in {"query_extend", "query_ret"}
    /\ proc' = [proc EXCEPT ![p] =
                    [@ EXCEPT !.acc = proc[p].acc \o proc[p].buf,
                              !.pc = IF proc[p].pc = "query_ret"
                                     THEN "query_filter" ELSE "query_next"]]
    /\ UNCHANGED <<files, shards, clock>>

\* get_events: the final list comprehension
QueryReturn(p) ==
    /\ \/ proc[p].pc = "query_filter"
       \/ proc[p].pc = "query_next" /\ proc[p].order = <<>>
    /\ proc' = [proc EXCEPT ![p] =
                    [@ EXCEPT !.pc = "done",
                              !.res = Returned(Filter(proc[p].acc, <<>>, <<>>,
                                                      <<>>, FALSE))]]
    /\ UNCHANGED <<files, shards, clock>>

\* ---------------------------------------------------------------------
\* MonthlyArcEngine.construct_month_arc (monthly_arc/monthly_engine.py)
\* ---------------------------------------------------------------------
\* an event dated "2025-01-03" without title and type whose tags "robotics"
\* and "omega1" name the same epic and whose metadata carries both sentiment
\* and tone
EvE == TimelineEvent(3, IsoFormatYmd(2025, 1, 3), "", "", "e",
                     <<"robotics", "omega1", "w">>,
                     "user_entry",
                     [k \in {"sentiment", "tone"} |->
                         IF k = "sentiment" THEN "calm" ELSE "tired"],
                     FALSE)

\* an event with a title whose tags name two epics, one of them twice
EvF == TimelineEvent(4, IsoFormatYmd(2025, 1, 4), "F", "training", "f",
                     <<"robotics", "bjj", "omega1">>, "user_entry", NoMeta,
                     FALSE)

\* an event with a title and one epic tag
EvG == TimelineEvent(5, IsoFormatYmd(2025, 1, 1), "G", "work", "g",
                     <<"omega1">>, "user_entry", NoMeta, FALSE)

\* stores the engine reads: empty; one where tag "x" occurs twice; one where
\* no tag occurs twice and five tags occur; one where three events carry
\* epic tags
ArcStores ==
    { EmptyStore,
      AfterAdd(AfterAdd(AfterAdd(AfterAdd(EmptyStore, EvA), EvB), EvC), EvD),
      AfterAdd(AfterAdd(AfterAdd(EmptyStore, EvC), EvE), EvB),
      AfterAdd(AfterAdd(AfterAdd(EmptyStore, EvG), EvE), EvF) }

\* datetime.now(UTC).date(): 2025-01-04
Today == Ordinal(2025, 1, 4)

\* construct_month_arc(start_date, end_date) with datetime.date arguments,
\* <<>> for None: 2024-12-27..2025-01-05 (two windows), 2025-01-03..2024-12-30
\* (start after end), 2025-01-02..2025-01-02 (one day), 2024-12-27..2024-12-28
\* (before every stored event), only the start 2024-12-27, only the end
\* 2025-01-05, and neither
ArcRequests ==
    { [start_date |-> <<Ordinal(2024, 12, 27)>>, end_date |-> <<Ordinal(2025, 1, 5)>>],
      [start_date |-> <<Ordinal(2025, 1, 3)>>, end_date |-> <<Ordinal(2024, 12, 30)>>],
      [start_date |-> <<Ordinal(2025, 1, 2)>>, end_date |-> <<Ordinal(2025, 1, 2)>>],
      [start_date |-> <<Ordinal(2024, 12, 27)>>, end_date |-> <<Ordinal(2024, 12, 28)>>],
      [start_date |-> <<Ordinal(2024, 12, 27)>>, end_date |-> <<>>],
      [start_date |-> <<>>, end_date |-> <<Ordinal(2025, 1, 5)>>],
      [start_date |-> <<>>, end_date |-> <<>>] }

\* a range resolution that spans 31 days from the one bound given
ResolveMonthRangeSpan31(start_date, end_date, today) ==
    IF start_date = <<>> /\ end_date = <<>>
    THEN LET t == Ymd(today)
             next_month == IF t[2] = 12 THEN Ordinal(t[1] + 1, 1, 1)
                           ELSE Ordinal(t[1], t[2] + 1, 1)
         IN <<Ordinal(t[1], t[2], 1), next_month - 1>>
    ELSE LET start == IF start_date # <<>> THEN start_date[1]
                      ELSE end_date[1] - 31
             end == IF end_date # <<>> THEN end_date[1]
                    ELSE start_date[1] + 31
         IN IF start > end THEN <<end, start>> ELSE <<start, end>>

\* _resolve_month_range on datetime.date arguments: <<start, end>>
ResolveMonthRange(start_date, end_date, today) ==
    IF start_date = <<>> /\ end_date = <<>>
    THEN LET t == Ymd(today)
             next_month == IF t[2] = 12 THEN Ordinal(t[1] + 1, 1, 1)
                           ELSE Ordinal(t[1], t[2] + 1, 1)
         IN <<Ordinal(t[1], t[2], 1), next_month - 1>>
    ELSE LET start == IF start_date # <<>> THEN start_date[1]
                      ELSE end_date[1] - 30
             end == IF end_date # <<>> THEN end_date[1]
                    ELSE start_date[1] + 30
         IN IF start > end THEN <<end, start>> ELSE <<start, end>>

\* _week_ranges as a list: the loop of WeekStep run to its end
RECURSIVE WeekRangesFrom(_, _, _, _)
WeekRangesFrom(c, i, end, events) ==
    IF c > end THEN <<>>
    ELSE LET week_end == WeekEnd(c, end)
         IN <<[label |-> WeekLabel(i, c, week_end), start |-> c,
               end |-> week_end,
               events |-> EventsInWeek(events, c, week_end)]>>
            \o WeekRangesFrom(week_end + 1, i + 1, end, events)

WeekRanges(start, end, events) == WeekRangesFrom(start, 1, end, events)

\* a dict of counters filled by d[k] = d.get(k, 0) + 1 over the list seq
\* that counts each key once
TallyPresence(seq) == [k \in {seq[i] : i \in DOMAIN seq} |-> 1]

\* a dict of counters filled by d[k] = d.get(k, 0) + 1 over the list seq
Tally(seq) ==
    [k \in {seq[i] : i \in DOMAIN seq} |->
        Cardinality({i \in DOMAIN seq : seq[i] = k})]

\* meta.get("sentiment") or meta.get("tone"): "" stands for None
Mood(event) ==
    LET meta == event.metadata
        sentiment == IF "sentiment" \in DOMAIN meta THEN meta["sentiment"] ELSE ""
        tone == IF "tone" \in DOMAIN meta THEN meta["tone"] ELSE ""
    IN IF sentiment # "" THEN sentiment ELSE tone

\* the tags of all events, in event order then tag order
RECURSIVE AllTags(_)
AllTags(events) ==
    IF events = <<>> THEN <<>> ELSE Head(events).tags \o AllTags(Tail(events))

\* gather_month_events
GatherMonthEvents(f, sh, start_date, end_date, today) ==
    LET r == ResolveMonthRange(start_date, end_date, today)
        events == GetEvents(f, sh, <<>>, IsoFormat(r[1]), IsoFormat(r[2]),
                            <<>>, FALSE)
        category(event) ==
            IF event.type # "" THEN event.type ELSE "uncategorized"
        sentiment(event) ==
            IF Mood(event) # "" THEN Mood(event) ELSE "neutral"
        windows == WeekRanges(r[1], r[2], events)
        \* a dict keyed by window label: a later window with the same label
        \* would replace the earlier one
        week_splits ==
            [l \in {windows[i].label : i \in DOMAIN windows} |->
                LET i == CHOOSE j \in DOMAIN windows :
                             /\ windows[j].label = l
                             /\ \A k \in DOMAIN windows :
                                  windows[k].label = l => k <= j
                IN [start |-> IsoFormat(windows[i].start),
                    end |-> IsoFormat(windows[i].end),
                    count |-> Len(windows[i].events)]]
    IN [events |-> events,
        stats |-> [count |-> Len(events),
                   categories |-> Tally([i \in DOMAIN events |-> category(events[i])]),
                   tags |-> Tally(AllTags(events)),
                   sentiment_summary |->
                       Tally([i \in DOMAIN events |-> sentiment(events[i])]),
                   week_splits |-> week_splits]]

\* most issues the drift auditor returns in one audit
MaxIssues == 6
\* most tasks a task accessor returns
MaxTasks == 2

\* the weekly collaborator exposes construct_week_arc(events=None,
\* start_date=None, end_date=None), or construct_week_arc(events), or only
\* stitch(events); the task collaborator summarize_month() or the accessors
Collaborators ==
    { [weekly |-> "keyword", tasks |-> "monthly"],
      [weekly |-> "events_only", tasks |-> "accessors"],
      [weekly |-> "stitch", tasks |-> "monthly"] }

\* what a parameter of a collaborator method received
AsEvents(events) == [kind |-> "events", v |-> events]

AsDate(d) == [kind |-> "date", v |-> d]

NoneArg == [kind |-> "none"]

\* the call forms of _call_weekly_arc_engine: 1 method(events=, start_date=,
\* end_date=), 2 method(events), 3 method(start, end, events); whether the
\* call binds to the method's parameters (else it raises TypeError unentered)
Binds(shape, form) ==
    \/ shape = "keyword"
    \/ shape = "events_only" /\ form = 2

\* the parameters of the method as the call form binds them
Received(form, events, start, end) ==
    IF form = 1
    THEN [events |-> AsEvents(events), start_date |-> AsDate(start),
          end_date |-> AsDate(end)]
    ELSE IF form = 2
    THEN [events |-> AsEvents(events), start_date |-> NoneArg,
          end_date |-> NoneArg]
    ELSE [events |-> AsDate(start), start_date |-> AsDate(end),
          end_date |-> AsEvents(events)]

\* what a weekly collaborator call returns
ArcPlain ==
    [narrative |-> [hook |-> "Weekly hook", arc |-> "weekly arc",
                    turning_points |-> <<>>]]

WeeklyReplies ==
    { ArcPlain,
      [narrative |-> [hook |-> "", arc |-> "",
                      turning_points |-> <<"turn 1", "turn 2">>]] }

\* how an entered collaborator method ends
Outcomes == {"returned", "TypeError", "RuntimeError"}

\* an entry of the call history
Invocation(who, method, args, outcome, reply) ==
    [who |-> who, method |-> method, args |-> args, outcome |-> outcome,
     reply |-> reply]

\* the keys of a dict filled from seq, in insertion order
RECURSIVE DictKeys(_)
DictKeys(seq) ==
    IF seq = <<>> THEN <<>>
    ELSE LET init == DictKeys(SubSeq(seq, 1, Len(seq) - 1))
             last == seq[Len(seq)]
         IN IF \E i \in DOMAIN init : init[i] = last THEN init
            ELSE Append(init, last)

\* the position of the largest count, the last one among equals
LastMax(keys, counts) ==
    CHOOSE j \in DOMAIN keys :
        /\ \A k \in DOMAIN keys : counts[keys[k]] <= counts[keys[j]]
        /\ \A k \in DOMAIN keys : k > j => counts[keys[k]] < counts[keys[j]]

\* the position sorted(..., reverse=True) puts first: the largest count,
\* and among equal counts the one that comes first in the input
FirstMax(keys, counts) ==
    CHOOSE j \in DOMAIN keys :
        /\ \A k \in DOMAIN keys : counts[keys[k]] <= counts[keys[j]]
        /\ \A k \in DOMAIN keys : k < j => counts[keys[k]] < counts[keys[j]]

\* sorted(tag_counts.items(), key=lambda item: item[1], reverse=True):
\* descending by count, equal counts staying in dict order
RECURSIVE SortByCountDesc(_, _)
SortByCountDesc(keys, counts) ==
    IF keys = <<>> THEN <<>>
    ELSE LET i == FirstMax(keys, counts)
         IN <<keys[i]>>
            \o SortByCountDesc(SubSeq(keys, 1, i - 1)
                                  \o SubSeq(keys, i + 1, Len(keys)), counts)

\* sorted(trending) for a list of distinct tags of the model
SortedTags(seq) ==
    SelectSeq(<<"bjj", "omega1", "robotics", "w", "x", "y", "z">>,
              LAMBDA t : \E i \in DOMAIN seq : seq[i] = t)

\* one string of the themes list: its literal head and the items joined
Theme(kind, items) == [kind |-> kind, items |-> items]

\* narrative.get("arc") of every week that has one
Subplots(arcs) ==
    LET texts == [i \in DOMAIN arcs |-> arcs[i].arc.narrative.arc]
    IN SelectSeq(texts, LAMBDA t : t # "")

\* a themes list with the emotional patterns ahead of the motifs
InferMonthlyThemesMoodsFirst(events, arcs) ==
    LET tag_list == AllTags(events)
        tag_counts == Tally(tag_list)
        keys == DictKeys(tag_list)
        over == SelectSeq(keys, LAMBDA t : tag_counts[t] > 1)
        trending == IF over = <<>> /\ keys # <<>>
                    THEN SubSeq(SortByCountDesc(keys, tag_counts), 1, Min(3, Len(keys)))
                    ELSE over
        motifs == Subplots(arcs)
        emotional_patterns ==
            SelectSeq([i \in DOMAIN events |-> Mood(events[i])],
                      LAMBDA m : m # "")
        special_tracks ==
            SelectSeq(<<"robotics", "omega1", "japanese", "bjj", "training">>,
                      LAMBDA k : k \in DOMAIN tag_counts)
        found ==
            (IF trending # <<>>
             THEN <<Theme("Trending tags", SortedTags(trending))>> ELSE <<>>)
            \o (IF emotional_patterns # <<>>
                THEN <<Theme("Emotional patterns", emotional_patterns)>>
                ELSE <<>>)
            \o (IF motifs # <<>>
                THEN <<Theme("Repeated motifs", motifs)>> ELSE <<>>)
            \o [i \in DOMAIN special_tracks |->
                   Theme("Progress in", <<special_tracks[i]>>)]
    IN IF found = <<>> THEN <<Theme("No major themes detected.", <<>>)>>
       ELSE found

\* infer_monthly_themes
InferMonthlyThemes(events, arcs) ==
    LET tag_list == AllTags(events)
        tag_counts == Tally(tag_list)
        keys == DictKeys(tag_list)
        over == SelectSeq(keys, LAMBDA t : tag_counts[t] > 1)
        trending == IF over = <<>> /\ keys # <<>>
                    THEN SubSeq(SortByCountDesc(keys, tag_counts), 1, Min(3, Len(keys)))
                    ELSE over
        motifs == Subplots(arcs)
        emotional_patterns ==
            SelectSeq([i \in DOMAIN events |-> Mood(events[i])],
                      LAMBDA m : m # "")
        special_tracks ==
            SelectSeq(<<"robotics", "omega1", "japanese", "bjj", "training">>,
                      LAMBDA k : k \in DOMAIN tag_counts)
        found ==
            (IF trending # <<>>
             THEN <<Theme("Trending tags", SortedTags(trending))>> ELSE <<>>)
            \o (IF motifs # <<>>
                THEN <<Theme("Repeated motifs", motifs)>> ELSE <<>>)
            \o (IF emotional_patterns # <<>>
                THEN <<Theme("Emotional patterns", emotional_patterns)>>
                ELSE <<>>)
            \o [i \in DOMAIN special_tracks |->
                   Theme("Progress in", <<special_tracks[i]>>)]
    IN IF found = <<>> THEN <<Theme("No major themes detected.", <<>>)>>
       ELSE found

\* the (epic, event) pairs the two loops of detect_epic_progression append
RECURSIVE EpicHits(_)
EpicHits(events) ==
    IF events = <<>> THEN <<>>
    ELSE LET epic_tags ==
                 [t \in {"robotics", "omega1", "japanese", "bjj", "finances",
                         "relationships", "health", "career"} |->
                     IF t \in {"robotics", "omega1"} THEN "Robotics: Omega-1"
                     ELSE IF t = "japanese" THEN "Japanese Language"
                     ELSE IF t = "bjj" THEN "Brazilian Jiu-Jitsu"
                     ELSE IF t = "finances" THEN "Finances"
                     ELSE IF t = "relationships" THEN "Relationships"
                     ELSE IF t = "health" THEN "Health"
                     ELSE "Career"]
             event == Head(events)
             tags == SelectSeq(event.tags, LAMBDA t : t \in DOMAIN epic_tags)
         IN [i \in DOMAIN tags |-> [epic |-> epic_tags[tags[i]], event |-> event]]
            \o EpicHits(Tail(events))

\* the non-empty titles of a list of events
Titles(events) ==
    SelectSeq([i \in DOMAIN events |-> events[i].title], LAMBDA t : t # "")

\* an epic progression that counts an event once however many of its tags
\* name the epic
DetectEpicProgressionOncePerEvent(events) ==
    LET hits == EpicHits(events)
        names == DictKeys([i \in DOMAIN hits |-> hits[i].epic])
    IN [n \in DOMAIN names |->
           LET group == SelectSeq(hits, LAMBDA h : h.epic = names[n])
               epic_group == [i \in DOMAIN group |-> group[i].event]
               once == {epic_group[i] : i \in DOMAIN epic_group}
           IN [epic |-> names[n],
               progress |-> <<ToString(Cardinality(once)), " updates recorded.">>,
               milestones |-> Titles(epic_group)]]

\* detect_epic_progression
DetectEpicProgression(events) ==
    LET hits == EpicHits(events)
        names == DictKeys([i \in DOMAIN hits |-> hits[i].epic])
    IN [n \in DOMAIN names |->
           LET group == SelectSeq(hits, LAMBDA h : h.epic = names[n])
               epic_group == [i \in DOMAIN group |-> group[i].event]
           IN [epic |-> names[n],
               progress |-> <<ToString(Len(epic_group)), " updates recorded.">>,
               milestones |-> Titles(epic_group)]]

\* turning_points of every week, flattened
RECURSIVE TurningPoints(_)
TurningPoints(arcs) ==
    IF arcs = <<>> THEN <<>>
    ELSE Head(arcs).arc.narrative.turning_points \o TurningPoints(Tail(arcs))

\* generate_month_narrative after the stitcher returned the str `stitched`
GenerateMonthNarrative(stitched, month_events, arcs) ==
    LET found == TurningPoints(arcs)
        turning_points == IF found = <<>>
                          THEN Titles(SubSeq(month_events, 1,
                                             Min(3, Len(month_events))))
                          ELSE found
    IN [hook |-> stitched, arc |-> stitched,
        subplots |-> Subplots(arcs),
        turning_points |-> turning_points,
        climax |-> IF turning_points # <<>> THEN turning_points[1] ELSE "",
        resolution |-> "Trajectory set for next month."]

\* the list of n issues an audit returns
Issues(n) == [i \in 1..n |-> "issue"]

\* a severity that calls five issues high
DriftSeverityFromFive(n) ==
    IF n >= 5 THEN "high" ELSE IF n > 0 THEN "medium" ELSE "low"

\* severity of run_monthly_drift_audit for len(issues) = n
DriftSeverity(n) ==
    IF n > 5 THEN "high" ELSE IF n > 0 THEN "medium" ELSE "low"

\* run_monthly_drift_audit after the auditor returned `issues`
RunMonthlyDriftAudit(issues) ==
    [issues |-> issues, severity |-> DriftSeverity(Len(issues)),
     notes |-> IF issues = <<>> THEN <<"No drift detected.">>
               ELSE <<ToString(Len(issues)), " drift signals detected.">>]

\* a list of n tasks
Tasks(n) == [i \in 1..n |-> "task"]

\* the summary dict summarize_month_tasks starts from; efficiency_score is
\* <<h>> for the float h / 100 and <<>> for None
TaskDefaults ==
    [completed |-> <<>>, overdue |-> <<>>, new_tasks |-> <<>>,
     priority |-> <<>>, efficiency_score |-> <<0>>, week_breakdowns |-> <<>>]

\* dicts summarize_month() returns: with a score, without the key, with the
\* score None, and empty
TaskReplies ==
    { [completed |-> Tasks(2), overdue |-> Tasks(1), new_tasks |-> Tasks(1),
       priority |-> Tasks(1), efficiency_score |-> <<50>>,
       week_breakdowns |-> <<"w1", "w2">>],
      [completed |-> Tasks(2), overdue |-> Tasks(1)],
      [completed |-> Tasks(1), overdue |-> Tasks(2), efficiency_score |-> <<>>],
      [k \in {} |-> <<>>] }

\* summarize_month_tasks from summary.update(reply) on: the score is
\* computed when the key is missing or holds None, as round(c / base, 2) in
\* hundredths (halves go to the even neighbour)
FillScore(summary, reply) ==
    LET merged == reply @@ summary
        completed_count == Len(merged.completed)
        overdue_count == Len(merged.overdue)
        base == IF completed_count + overdue_count = 0 THEN 1
                ELSE completed_count + overdue_count
        q == (100 * completed_count) \div base
        twice == 2 * ((100 * completed_count) % base)
        rounded == IF twice < base THEN q
                   ELSE IF twice > base THEN q + 1
                   ELSE IF q % 2 = 0 THEN q ELSE q + 1
    IN IF ~("efficiency_score" \in DOMAIN merged)
          \/ merged.efficiency_score = <<>>
       THEN [k \in DOMAIN merged \cup {"efficiency_score"} |->
                IF k = "efficiency_score" THEN <<rounded>> ELSE merged[k]]
       ELSE merged

\* the locals of construct_month_arc before it has run
ArcBlank ==
    /\ month_data = [events |-> <<>>]
    /\ weekly_arcs = <<>>
    /\ attempt = [week |-> 1, form |-> 1]
    /\ narrative = [hook |-> ""]
    /\ themes = <<>>
    /\ epics = <<>>
    /\ drift = [issues |-> <<>>]
    /\ tasks = TaskDefaults
    /\ calls = <<>>
    /\ failure = [kind |-> "", at |-> ""]

ArcOff ==
    /\ request = [start_date |-> <<>>, end_date |-> <<>>]
    /\ collab = [weekly |-> "none", tasks |-> "none"]
    /\ epc = "off"
    /\ ArcBlank

\* construct_month_arc is called on a store that earlier add_event calls
\* filled
ArcInit ==
    /\ \E st \in ArcStores :
        files = st.files /\ shards = st.shards /\ log = st.shards
    /\ call = NoCall
    /\ ret = NotFound
    /\ pc = "idle"
    /\ pending = NoPending
    /\ orphan = NoOrphan
    /\ \E rq \in ArcRequests, c \in Collaborators :
        \* the requests of five windows are run with the collaborator
        \* that has one call form
        /\ (rq.start_date = <<>> \/ rq.end_date = <<>>) => c.weekly = "stitch"
        /\ request = rq
        /\ collab = c
    /\ epc = "gather"
    /\ ArcBlank

\* the exception leaves construct_month_arc
Propagates(kind, at) ==
    /\ epc' = "raised"
    /\ failure' = [kind |-> kind, at |-> at]

\* month_data = self.gather_month_events(start_date, end_date)
ArcGather ==
    /\ epc = "gather"
    /\ month_data' = GatherMonthEvents(files, shards, request.start_date,
                                       request.end_date, Today)
    /\ epc' = "weekly"
    /\ UNCHANGED <<request, collab, weekly_arcs, attempt, narrative, themes,
                   epics, drift, tasks, calls, failure>>

\* the windows synthesize_weekly_arcs loops over
Windows ==
    LET r == ResolveMonthRange(request.start_date, request.end_date, Today)
        month_events ==
            IF month_data.events # <<>> THEN month_data.events
            ELSE GetEvents(files, shards, <<>>, IsoFormat(r[1]),
                           IsoFormat(r[2]), <<>>, FALSE)
    IN WeekRanges(r[1], r[2], month_events)

\* one call made by _call_weekly_arc_engine for the window at hand.  When
\* the collaborator returns, the entry is appended and the loop goes on; on
\* except TypeError the next call form is tried.
ArcWeekly ==
    /\ epc = "weekly"
    /\ LET w == Windows[attempt.week]
           Appends(reply) ==
               /\ weekly_arcs' = Append(weekly_arcs,
                                        [week_label |-> w.label, arc |-> reply])
               /\ IF attempt.week < Len(Windows)
                  THEN attempt' = [week |-> attempt.week + 1, form |-> 1]
                       /\ epc' = epc
                  ELSE attempt' = attempt /\ epc' = "narrative"
               /\ failure' = failure
           NextForm ==
               /\ attempt' = [attempt EXCEPT !.form = @ + 1]
               /\ UNCHANGED <<weekly_arcs, epc, failure>>
       IN
       IF collab.weekly = "stitch"
       THEN \E outcome \in Outcomes, reply \in WeeklyReplies :
              /\ outcome # "returned" => reply = ArcPlain
              /\ calls' = Append(calls,
                    Invocation("weekly", "stitch",
                               [events |-> AsEvents(w.events),
                                start_date |-> NoneArg, end_date |-> NoneArg],
                               outcome,
                               IF outcome = "returned" THEN <<reply>> ELSE <<>>))
              /\ IF outcome = "returned" THEN Appends(reply)
                 ELSE /\ Propagates(outcome, "weekly")
                      /\ UNCHANGED <<weekly_arcs, attempt>>
       ELSE IF ~Binds(collab.weekly, attempt.form)
       THEN /\ calls' = calls
            /\ IF attempt.form < 3 THEN NextForm
               ELSE /\ Propagates("TypeError", "weekly")
                    /\ UNCHANGED <<weekly_arcs, attempt>>
       ELSE \E outcome \in Outcomes, reply \in WeeklyReplies :
              /\ outcome # "returned" => reply = ArcPlain
              /\ calls' = Append(calls,
                    Invocation("weekly", "construct_week_arc",
                               Received(attempt.form, w.events, w.start, w.end),
                               outcome,
                               IF outcome = "returned" THEN <<reply>> ELSE <<>>))
              /\ IF outcome = "returned" THEN Appends(reply)
                 ELSE IF outcome = "TypeError" /\ attempt.form < 3
                 THEN NextForm
                 ELSE /\ Propagates(outcome, "weekly")
                      /\ UNCHANGED <<weekly_arcs, attempt>>
    /\ UNCHANGED <<request, collab, month_data, narrative, themes, epics,
                   drift, tasks>>

\* narrative = self.generate_month_narrative(events, weekly_arcs)
ArcNarrative ==
    /\ epc = "narrative"
    /\ LET month_events ==
               IF month_data.events # <<>> THEN month_data.events
               ELSE GatherMonthEvents(files, shards, <<>>, <<>>, Today).events
       IN \E outcome \in Outcomes :
            /\ calls' = Append(calls,
                  Invocation("stitcher", "stitch",
                             [events |-> AsEvents(month_events)], outcome,
                             IF outcome = "returned" THEN <<"stitched">>
                             ELSE <<>>))
            /\ IF outcome = "returned"
               THEN /\ narrative' = GenerateMonthNarrative("stitched",
                                          month_events, weekly_arcs)
                    /\ epc' = "themes"
                    /\ failure' = failure
               ELSE /\ Propagates(outcome, "narrative")
                    /\ narrative' = narrative
    /\ UNCHANGED <<request, collab, month_data, weekly_arcs, attempt, themes,
                   epics, drift, tasks>>

\* themes = self.infer_monthly_themes(events, weekly_arcs)
ArcThemes ==
    /\ epc = "themes"
    /\ themes' = InferMonthlyThemes(month_data.events, weekly_arcs)
    /\ epc' = "epics"
    /\ UNCHANGED <<request, collab, month_data, weekly_arcs, attempt,
                   narrative, epics, drift, tasks, calls, failure>>

\* epics = self.detect_epic_progression(events)
ArcEpics ==
    /\ epc = "epics"
    /\ epics' = DetectEpicProgression(month_data.events)
    /\ epc' = "drift"
    /\ UNCHANGED <<request, collab, month_data, weekly_arcs, attempt,
                   narrative, themes, drift, tasks, calls, failure>>

\* drift = self.run_monthly_drift_audit(events)
ArcDrift ==
    /\ epc = "drift"
    /\ LET month_events ==
               IF month_data.events # <<>> THEN month_data.events
               ELSE GetEvents(files, shards, <<>>, <<>>, <<>>, <<>>, TRUE)
       IN \E outcome \in Outcomes, n \in 0..MaxIssues :
            /\ outcome # "returned" => n = 0
            /\ calls' = Append(calls,
                  Invocation("auditor", "audit",
                             [events |-> AsEvents(month_events)], outcome,
                             IF outcome = "returned" THEN <<Issues(n)>>
                             ELSE <<>>))
            /\ IF outcome = "returned"
               THEN /\ drift' = RunMonthlyDriftAudit(Issues(n))
                    /\ epc' = "tasks"
                    /\ failure' = failure
               ELSE /\ Propagates(outcome, "drift")
                    /\ drift' = drift
    /\ UNCHANGED <<request, collab, month_data, weekly_arcs, attempt,
                   narrative, themes, epics, tasks>>

\* tasks = self.summarize_month_tasks(), then the return of
\* construct_month_arc.  An accessor that raises TypeError is caught by
\* _safe_task_call, whose list(<bound method>) then raises TypeError itself.
ArcTasks ==
    /\ epc = "tasks"
    /\ IF collab.tasks = "monthly"
       THEN \E outcome \in Outcomes, reply \in TaskReplies :
              /\ outcome # "returned" => reply = [k \in {} |-> <<>>]
              /\ calls' = Append(calls,
                    Invocation("tasks", "summarize_month",
                               [events |-> NoneArg], outcome,
                               IF outcome = "returned" THEN <<reply>> ELSE <<>>))
              /\ IF outcome = "returned"
                 THEN /\ tasks' = FillScore(TaskDefaults, reply)
                      /\ epc' = "done"
                      /\ failure' = failure
                 ELSE /\ Propagates(outcome, "tasks")
                      /\ tasks' = tasks
       ELSE \E c \in 0..MaxTasks, o \in 0..MaxTasks, failAt \in 0..2,
               kind \in Outcomes \ {"returned"} :
              \* the accessors _safe_task_call finds on the collaborator,
              \* in call order (get_overdue, get_priority are not exposed)
              LET Accessors == <<"get_completed_tasks", "get_overdue_tasks",
                                 "get_new_tasks", "get_priority_tasks">>
                  replies == <<Tasks(c), Tasks(o), Tasks(1), <<>>>>
                  entered == IF failAt = 0 THEN Len(Accessors) ELSE failAt
              IN /\ failAt = 0 => kind = "TypeError"
                 /\ failAt # 0 => (c = 0 /\ o = 0)
                 /\ calls' = calls \o
                       [i \in 1..entered |->
                           Invocation("tasks", Accessors[i],
                                      [events |-> NoneArg],
                                      IF i = failAt THEN kind ELSE "returned",
                                      IF i = failAt THEN <<>>
                                      ELSE <<replies[i]>>)]
                 /\ IF failAt = 0
                    THEN /\ tasks' = FillScore(TaskDefaults,
                                        [completed |-> replies[1],
                                         overdue |-> replies[2],
                                         new_tasks |-> replies[3],
                                         priority |-> replies[4]])
                         /\ epc' = "done"
                         /\ failure' = failure
                    ELSE /\ Propagates(kind, "tasks")
                         /\ tasks' = tasks
    /\ UNCHANGED <<request, collab, month_data, weekly_arcs, attempt,
                   narrative, themes, epics, drift>>

\* ---------------------------------------------------------------------
\* Specifications
\* ---------------------------------------------------------------------
\* sequential calls on one TimelineManager
Init == StoreInit /\ WeekOff /\ ConcOff /\ ArcOff

Next ==
    \/ (AddEvent /\ UNCHANGED <<weekVars, concVars, arcVars>>)
    \/ (QueryEvents /\ UNCHANGED <<weekVars, concVars, arcVars>>)
    \/ (ArchiveEvent /\ UNCHANGED <<weekVars, concVars, arcVars>>)
    \/ (CorrectEvent /\ UNCHANGED <<weekVars, concVars, arcVars>>)

Spec == Init /\ [][Next]_vars

\* sequential calls where a correct_event call can be cut short
NextCrash ==
    \/ (AddEvent /\ UNCHANGED <<weekVars, concVars, arcVars>>)
    \/ (QueryEvents /\ UNCHANGED <<weekVars, concVars, arcVars>>)
    \/ (ArchiveEvent /\ UNCHANGED <<weekVars, concVars, arcVars>>)
    \/ (CorrectBegin /\ UNCHANGED <<weekVars, concVars, arcVars>>)
    \/ (CorrectFinish /\ UNCHANGED <<weekVars, concVars, arcVars>>)
    \/ (Crash /\ UNCHANGED <<weekVars, concVars, arcVars>>)

SpecCrash == Init /\ [][NextCrash]_vars

\* one _week_ranges call
InitPart == StoreInit /\ WeekInit /\ ConcOff /\ ArcOff

NextPart ==
    \/ (WeekStep /\ UNCHANGED <<storeVars, concVars, arcVars>>)
    \/ (WeekReturn /\ UNCHANGED <<storeVars, concVars, arcVars>>)

SpecPart == InitPart /\ [][NextPart]_vars

\* two concurrent callers, one call each
InitConc == ConcInit /\ WeekOff /\ ArcOff

NextConc ==
    \/ \E p \in Procs : StartAdd(p) /\ UNCHANGED <<seqVars, weekVars, arcVars>>
    \/ \E p \in Procs : StartArchive(p) /\ UNCHANGED <<seqVars, weekVars, arcVars>>
    \/ \E p \in Procs : StartCorrect(p) /\ UNCHANGED <<seqVars, weekVars, arcVars>>
    \/ \E p \in Procs : StartQuery(p) /\ UNCHANGED <<seqVars, weekVars, arcVars>>
    \/ \E p \in Procs : Exists(p) /\ UNCHANGED <<seqVars, weekVars, arcVars>>
    \/ \E p \in Procs : Create(p) /\ UNCHANGED <<seqVars, weekVars, arcVars>>
    \/ \E p \in Procs : Read(p) /\ UNCHANGED <<seqVars, weekVars, arcVars>>
    \/ \E p \in Procs : AddSave(p) /\ UNCHANGED <<seqVars, weekVars, arcVars>>
    \/ \E p \in Procs : ArchNext(p) /\ UNCHANGED <<seqVars, weekVars, arcVars>>
    \/ \E p \in Procs : ArchScan(p) /\ UNCHANGED <<seqVars, weekVars, arcVars>>
    \/ \E p \in Procs : ArchSave(p) /\ UNCHANGED <<seqVars, weekVars, arcVars>>
    \/ \E p \in Procs : QueryNext(p) /\ UNCHANGED <<seqVars, weekVars, arcVars>>
    \/ \E p \in Procs : QueryExtend(p) /\ UNCHANGED <<seqVars, weekVars, arcVars>>
    \/ \E p \in Procs : QueryReturn(p) /\ UNCHANGED <<seqVars, weekVars, arcVars>>

SpecConc == InitConc /\ [][NextConc]_vars

\* one construct_month_arc call
InitArc == ArcInit /\ WeekOff /\ ConcOff

NextArc ==
    \/ (ArcGather /\ UNCHANGED <<storeVars, weekVars, concVars>>)
    \/ (ArcWeekly /\ UNCHANGED <<storeVars, weekVars, concVars>>)
    \/ (ArcNarrative /\ UNCHANGED <<storeVars, weekVars, concVars>>)
    \/ (ArcThemes /\ UNCHANGED <<storeVars, weekVars, concVars>>)
    \/ (ArcEpics /\ UNCHANGED <<storeVars, weekVars, concVars>>)
    \/ (ArcDrift /\ UNCHANGED <<storeVars, weekVars, concVars>>)
    \/ (ArcTasks /\ UNCHANGED <<storeVars, weekVars, concVars>>)

SpecArc == InitArc /\ [][NextArc]_vars

\* ---------------------------------------------------------------------
\* Properties
\* ---------------------------------------------------------------------
\* number of entries of the sequence seq that equal e
RECURSIVE Count(_, _)
Count(seq, e) ==
    IF seq = <<>> THEN 0
    ELSE (IF Head(seq) = e THEN 1 ELSE 0) + Count(Tail(seq), e)

\* the tag lists a and b share a tag
TagsMeet(a, b) == \E i \in DOMAIN a, j \in DOMAIN b : a[i] = b[j]

\* a <= b on str values
StrLeq(a, b) == a = b \/ StrLt(a, b)

\* no stored row with this id carries the archived flag
IdNeverArchived(id) ==
    \A y \in Years : \A i \in DOMAIN shards[y] :
        shards[y][i].id = id => ~shards[y][i].archived

\* rows i of shard y whose content differs between two stores
ChangedRows(before, after) ==
    {<<y, i>> \in Years \X (1..(MaxRows + 1)) :
        i \in DOMAIN before[y] /\ i \in DOMAIN after[y]
        /\ before[y][i] # after[y][i]}

\* C1: every record add_event appended whose id has no archived row is
\* returned by get_events() exactly as many times as it was appended, once
\* per append, after any sequence of add/archive/correct calls.
AppendOnly ==
    \A y \in Years : \A k \in DOMAIN log[y] :
        IdNeverArchived(log[y][k].id)
            => Count(DefaultQuery, log[y][k]) = Count(log[y], log[y][k])

\* C1 witness: an archive or correction has succeeded, and a record with
\* another, never archived id is stored next to the archived row
AppendOnlyWitness ==
    /\ call.op \in {"archive", "correct"}
    /\ ret.status = "ok"
    /\ Len(DefaultQuery) >= 1
    /\ \E y \in Years : \E k \in DOMAIN log[y] :
          IdNeverArchived(log[y][k].id) /\ ~IdNeverArchived(call.id)

\* C2: every row ever appended is still at its position of its shard with
\* the fields it was appended with, except archived, and archived only
\* ever goes from false to true.
RecordImmutability ==
    /\ [](\A y \in Years :
            /\ Len(shards[y]) = Len(log[y])
            /\ \A i \in DOMAIN log[y] :
                 /\ [shards[y][i] EXCEPT !.archived = FALSE]
                      = [log[y][i] EXCEPT !.archived = FALSE]
                 /\ log[y][i].archived => shards[y][i].archived)
    /\ [][\A y \in Years : \A i \in DOMAIN shards[y] :
            /\ i \in DOMAIN shards'[y]
            /\ shards[y][i].archived => shards'[y][i].archived]_vars

\* C2 witness: a row appended active is now archived, and a get_events call
\* has run on the store since
RecordImmutabilityWitness ==
    /\ call.op = "query"
    /\ \E y \in Years : \E i \in DOMAIN shards[y] :
          shards[y][i].archived /\ ~log[y][i].archived

\* the rows of the candidates satisfying all given predicates at once
Satisfies(row, q) ==
    /\ q.include_archived \/ ~row.archived
    /\ q.tags = <<>> \/ TagsMeet(q.tags, row.tags)
    /\ q.start_date = <<>> \/ StrLeq(q.start_date, row.date)
    /\ q.end_date = <<>> \/ StrLeq(row.date, q.end_date)

\* C4: get_events returns exactly the candidate rows (the shard of `year`,
\* or every shard in sorted order) that are not archived unless
\* include_archived, share a tag with `tags` when given, and have
\* start_date <= date <= end_date as strings; in candidate order.
ConjunctiveFiltering ==
    call.op = "query" =>
        LET q == call.args
            cands == IF q.year = <<>> THEN Concat(shards, SortedYears(Years))
                     ELSE shards[q.year[1]]
        IN /\ ret.status = "ok"
           /\ ret.value = SelectSeq(cands, LAMBDA row : Satisfies(row, q))

\* C4 witness: a query with tags, start_date and end_date all given returned
\* some row and left out some candidate
ConjunctiveFilteringWitness ==
    /\ call.op = "query"
    /\ call.args.tags # <<>>
    /\ call.args.start_date # <<>>
    /\ call.args.end_date # <<>>
    /\ Len(ret.value) >= 1
    /\ Len(ret.value) < TotalRows(shards)

\* C5: correct_event with an id no shard contains returns the not-found
\* sentinel and changes neither the rows nor the files of the store.
CorrectMissingNoEffect ==
    [][(call'.op = "correct"
        /\ \A y \in Years : \A i \in DOMAIN shards[y] :
               shards[y][i].id # call'.id)
       => (ret' = NotFound /\ shards' = shards /\ files' = files
           /\ log' = log)]_vars

\* C5 witness: a correction of an absent id has returned not-found on a
\* store that holds rows
CorrectMissingWitness ==
    /\ call.op = "correct"
    /\ ret = NotFound
    /\ TotalRows(shards) >= 2

\* C6: add_event with an unparsable date raises and leaves every shard as
\* it was; with a parsable date it appends exactly that one row to the
\* shard of the date's year, leaves the other shards alone and returns the
\* event unchanged.
AddEventEffect ==
    [][call'.op = "add" =>
        LET ev == call'.event
            parsed == FromIsoformat(ev.date)
        IN IF parsed = <<>>
           THEN ret' = DateParseError /\ shards' = shards /\ files' = files
           ELSE /\ ret' = Returned(ev)
                /\ shards'[parsed[1]] = Append(shards[parsed[1]], ev)
                /\ \A y \in Years \ {parsed[1]} :
                     shards'[y] = shards[y]]_vars

\* C6 witness: an add_event with an unparsable date has raised on a store
\* that already holds rows in both shards
AddEventEffectWitness ==
    /\ call.op = "add"
    /\ ret = DateParseError
    /\ \A y \in Years : Len(shards[y]) >= 1

\* C7: for start <= end the windows _week_ranges returns start at start,
\* end at end, each begin the day after the previous one ends, so they do
\* not overlap and cover every day of [start, end] exactly once; none spans
\* more than 7 days and only the last may span fewer.
PartitionCoverage ==
    (wpc = "done" /\ range.start <= range.end) =>
        /\ Len(weeks) >= 1
        /\ weeks[1].start = range.start
        /\ weeks[Len(weeks)].end = range.end
        /\ \A i \in DOMAIN weeks :
             /\ weeks[i].start <= weeks[i].end
             /\ weeks[i].end - weeks[i].start + 1 <= 7
             /\ i < Len(weeks) => weeks[i].end - weeks[i].start + 1 = 7
             /\ i < Len(weeks) => weeks[i + 1].start = weeks[i].end + 1
             /\ weeks[i].label[2] = i
        /\ \A d \in range.start..range.end :
             Cardinality({i \in DOMAIN weeks :
                             weeks[i].start <= d /\ d <= weeks[i].end}) = 1

\* C7 witness: a range of more than two weeks was split and its last window
\* is shorter than 7 days
PartitionCoverageWitness ==
    /\ wpc = "done"
    /\ Len(weeks) >= 3
    /\ weeks[Len(weeks)].end - weeks[Len(weeks)].start + 1 < 7

\* the first row of shard y carrying the id, as a set of <<y, i>>
FirstMatch(sh, y, id) ==
    {<<y, i>> : i \in {j \in DOMAIN sh[y] :
                          /\ sh[y][j].id = id
                          /\ \A k \in 1..(j - 1) : sh[y][k].id # id}}

\* C3: a successful correct_event(id, new) touches exactly two rows: it
\* archives the one original (a row with that id, afterwards returned only
\* with include_archived) and appends the one row it returns, which is new
\* with source "correction" when new.source was unset and which get_events()
\* returns when new was handed over active.
CorrectionLineage ==
    [][(call'.op = "correct" /\ ret'.status = "ok") =>
        LET new == call'.event
            stored == ret'.value
            y == FromIsoformat(new.date)[1]
            changed == ChangedRows(shards, shards')
        IN /\ TotalRows(shards') = TotalRows(shards) + 1
           /\ shards'[y] = Append(SubSeq(shards'[y], 1, Len(shards[y])), stored)
           /\ stored.id = new.id /\ stored.date = new.date
           /\ stored.title = new.title
           /\ stored.source = (IF new.source = Unset THEN "correction"
                                ELSE new.source)
           /\ ~new.archived => Count(DefaultQuery', stored) >= 1
           /\ Cardinality(changed) <= 1
           /\ \A c \in changed : shards[c[1]][c[2]].id = call'.id
           /\ \E yy \in Years : \E i \in DOMAIN shards[yy] :
                 /\ shards[yy][i].id = call'.id
                 /\ shards'[yy][i].archived
                 /\ Count(GetEvents(files', shards', <<>>, <<>>, <<>>, <<>>,
                                    TRUE), shards'[yy][i]) >= 1]_vars

\* C10: a successful archive_event(id) changes at most the first row with
\* that id of one shard, setting its archived flag; every other row, the
\* other rows with the same id included, and every other shard stay as
\* they were.
ArchiveFirstMatchOnly ==
    [][(call'.op = "archive" /\ ret'.status = "ok") =>
        LET changed == ChangedRows(shards, shards') IN
        /\ \A y \in Years : Len(shards'[y]) = Len(shards[y])
        /\ Cardinality(changed) <= 1
        /\ \A c \in changed :
             /\ c \in FirstMatch(shards, c[1], call'.id)
             /\ shards'[c[1]][c[2]]
                  = [shards[c[1]][c[2]] EXCEPT !.archived = TRUE]]_vars

\* the callers p and q both returned normally, p loaded the shard of year y
\* before q saved it, and p saved it after q did
Overtaken(p, q, y) ==
    /\ p # q
    /\ proc[p].pc = "done" /\ proc[q].pc = "done"
    /\ proc[p].res.status = "ok" /\ proc[q].res.status = "ok"
    /\ proc[p].op \in {"add", "archive"} /\ proc[q].op \in {"add", "archive"}
    /\ proc[p].year = y /\ proc[q].year = y
    /\ proc[p].readAt < proc[q].wroteAt
    /\ proc[q].wroteAt < proc[p].wroteAt

\* C8: when two add_event/archive_event calls on one year shard interleave
\* so that the later writer loaded the shard before the earlier writer saved
\* it, both return normally and the shard holds what the later writer
\* computed from the rows it loaded: the row the earlier writer appended, or
\* the archived flag it set, is not in the shard.
LastWriterWins ==
    \A p \in Procs, q \in Procs, y \in Years :
        Overtaken(p, q, y) =>
            /\ shards[y] = (IF proc[p].op = "add"
                            THEN Append(proc[p].buf, proc[p].ev)
                            ELSE proc[p].buf)
            /\ proc[q].op = "add" =>
                 Len(shards[y]) < Len(proc[q].buf) + 1
                                  + (IF proc[p].op = "add" THEN 1 ELSE 0)
            /\ (proc[q].op = "archive" /\ proc[p].op = "add") =>
                 \A i \in DOMAIN proc[q].buf :
                     (i \in DOMAIN proc[p].buf /\ proc[q].buf[i].archived
                      /\ ~proc[p].buf[i].archived)
                         => ~shards[y][i].archived

\* C8 witness: two add_event calls for the same year have both returned
\* their event and the shard holds only one of the two rows
LostUpdateWitness ==
    \E p \in Procs, q \in Procs :
        /\ Overtaken(p, q, 2025)
        /\ proc[p].op = "add" /\ proc[q].op = "add"
        /\ proc[q].res = Returned(EvB)
        /\ proc[p].res = Returned(EvC)
        /\ Count(shards[2025], EvC) = Count(proc[p].buf, EvC) + 1
        /\ Count(shards[2025], EvB) = Count(proc[p].buf, EvB)

\* C9: once a correct_event call has stopped between its archive write and
\* its append write, the rows it archived stay archived and out of the
\* default query, and the store never holds a row that no completed
\* add_event appended: nothing puts the replacement in or the original back.
CrashLeavesOrphan ==
    orphan.set =>
        /\ \A i \in orphan.hits :
             /\ i \in DOMAIN shards[orphan.year]
             /\ shards[orphan.year][i].archived
        /\ Len(GetEvents(files, shards, <<orphan.year>>, <<>>, <<>>, <<>>, FALSE))
             <= Len(shards[orphan.year]) - Cardinality(orphan.hits)
        /\ call.op = "crash" => TotalRows(shards) = orphan.rows
        /\ \A y \in Years : Len(shards[y]) = Len(log[y])

\* C9 witness: after the interruption other calls went on (an add_event
\* returned) and the original is still archived with no row added for it
CrashLeavesOrphanWitness ==
    /\ orphan.set
    /\ call.op = "add" /\ ret.status = "ok"
    /\ TotalRows(shards) = orphan.rows + 1
    /\ \A i \in orphan.hits : shards[orphan.year][i].archived

\* some stored row carries the id and every row that does is archived
ArchivedAlready(sh, id) ==
    /\ \E y \in Years : \E i \in DOMAIN sh[y] : sh[y][i].id = id
    /\ \A y \in Years : \A i \in DOMAIN sh[y] :
          sh[y][i].id = id => sh[y][i].archived

CorrectedAsSupplied ==
    [][(call'.op = "correct" /\ ret'.status = "ok") =>
        LET supplied == call'.event
            expected == [supplied EXCEPT
                            !.source = IF @ = Unset THEN "correction" ELSE @]
            y == FromIsoformat(supplied.date)[1]
        IN /\ ret'.value = expected
           /\ shards'[y][Len(shards'[y])] = expected]_vars

\* C17: get_events returns a list, raising nothing, and leaves the rows of
\* every shard as they are, whatever its arguments: a year without a shard
\* file and a store without any shard file included.
QueryReadOnly ==
    [][call'.op = "query" =>
        /\ ret'.status = "ok"
        /\ DOMAIN ret'.value = 1..Len(ret'.value)
        /\ shards' = shards
        /\ log' = log
        /\ (call'.args.year # <<>> /\ ~(call'.args.year[1] \in files))
              => ret'.value = <<>>]_vars

\* C17 witness: get_events(year=2024) returned [] on a store that had no
\* 2024 shard while the 2025 shard holds rows
QueryReadOnlyWitness ==
    /\ call.op = "query"
    /\ call.args.year = <<2024>>
    /\ ret = Returned(<<>>)
    /\ log[2024] = <<>>
    /\ Len(shards[2025]) >= 1

\* the statements of construct_month_arc, in order
Steps ==
    <<"gather", "weekly", "narrative", "themes", "epics", "drift", "tasks",
      "done">>

StepNo(step) == CHOOSE i \in DOMAIN Steps : Steps[i] = step

\* construct_month_arc has completed the statement `step`
Past(step) ==
    /\ epc # "off"
    /\ StepNo(IF epc = "raised" THEN failure.at ELSE epc) > StepNo(step)

\* the entries of the call history made on one collaborator
CallsOf(who) == SelectSeq(calls, LAMBDA c : c.who = who)

\* the sum of the counters of a dict
RECURSIVE SumOf(_)
SumOf(d) ==
    IF DOMAIN d = {} THEN 0
    ELSE LET k == CHOOSE x \in DOMAIN d : TRUE
         IN d[k] + SumOf([x \in DOMAIN d \ {k} |-> d[x]])

\* C13: whatever number n of issues the drift auditor returned, the drift
\* record carries those issues, severity "low" for n = 0, "medium" for
\* 1 <= n <= 5 and "high" for n > 5, and notes "No drift detected." for
\* n = 0 and "<n> drift signals detected." otherwise.
DriftSeverityThresholds ==
    Past("drift") =>
        LET audit == CallsOf("auditor")[1]
            n == Len(audit.reply[1])
        IN /\ Len(CallsOf("auditor")) = 1
           /\ drift.issues = audit.reply[1]
           /\ n = 0 => drift.severity = "low"
           /\ (1 <= n /\ n <= 5) => drift.severity = "medium"
           /\ n > 5 => drift.severity = "high"
           /\ n = 0 => drift.notes = <<"No drift detected.">>
           /\ n > 0 => drift.notes = <<ToString(n), " drift signals detected.">>

\* C13 witness: the auditor returned six issues and construct_month_arc
\* returned with severity "high"
DriftSeverityWitness ==
    /\ epc = "done"
    /\ Len(drift.issues) = 6
    /\ drift.severity = "high"
    /\ drift.notes = <<"6", " drift signals detected.">>

\* C14: the summary keeps a score the task collaborator supplied, and
\* otherwise (summarize_month() without the score, or the accessor
\* fallbacks) carries completed / max(1, completed + overdue), to the
\* hundredth.
EfficiencyScoreComputed ==
    epc = "done" =>
        LET last == calls[Len(calls)]
            supplied == /\ last.method = "summarize_month"
                        /\ "efficiency_score" \in DOMAIN last.reply[1]
                        /\ last.reply[1].efficiency_score # <<>>
            completed == Len(tasks.completed)
            overdue == Len(tasks.overdue)
            base == IF completed + overdue >= 1 THEN completed + overdue ELSE 1
        IN IF supplied
           THEN tasks.efficiency_score = last.reply[1].efficiency_score
           ELSE /\ Len(tasks.efficiency_score) = 1
                /\ 2 * (100 * completed - tasks.efficiency_score[1] * base) <= base
                /\ 2 * (tasks.efficiency_score[1] * base - 100 * completed) <= base

\* C15: a collaborator method that raised is the last one entered:
\* construct_month_arc is left with that exception and no collaborator is
\* called after it.
FailuresPropagateUnretried ==
    \A i \in DOMAIN calls :
        calls[i].outcome # "returned" =>
            /\ i = Len(calls)
            /\ epc = "raised"
            /\ failure.kind = calls[i].outcome

\* C16: with a weekly collaborator that takes (events, start_date,
\* end_date), the k-th call made on it receives the events, start and end
\* of the k-th window, no window is called for twice, and weekly_arcs holds
\* one {week_label, arc} per window called for, in window order, with the
\* arc that call returned.
WeeklyOncePerWindow ==
    (Past("gather") /\ collab.weekly = "keyword") =>
        LET made == CallsOf("weekly") IN
        /\ Len(made) <= Len(Windows)
        /\ Len(weekly_arcs) <= Len(made)
        /\ Len(made) <= Len(weekly_arcs) + 1
        /\ (Past("weekly") /\ epc # "raised") => Len(weekly_arcs) = Len(Windows)
        /\ \A k \in DOMAIN made :
             /\ made[k].args.events = AsEvents(Windows[k].events)
             /\ made[k].args.start_date = AsDate(Windows[k].start)
             /\ made[k].args.end_date = AsDate(Windows[k].end)
        /\ \A k \in DOMAIN weekly_arcs :
             /\ weekly_arcs[k].week_label = Windows[k].label
             /\ made[k].outcome = "returned"
             /\ weekly_arcs[k].arc = made[k].reply[1]

\* the tags whose first occurrence in the list has fewer than three
\* different tags before it
FirstThreeSeen(tag_list) ==
    {tag_list[p] : p \in {q \in DOMAIN tag_list :
        Cardinality({tag_list[j] : j \in 1..(q - 1)}) < 3}}

\* C18: themes is the value infer_monthly_themes has for the events and
\* weekly arcs at hand, and when no tag occurs more than once its first
\* line lists, as trending tags, exactly the first three tags seen in the
\* event list.
ThemesFirstSeenTieBreak ==
    Past("themes") =>
        LET tag_list == AllTags(month_data.events) IN
        /\ themes = InferMonthlyThemes(month_data.events, weekly_arcs)
        /\ (/\ tag_list # <<>>
            /\ \A i, j \in DOMAIN tag_list : i # j => tag_list[i] # tag_list[j])
           => /\ themes[1].kind = "Trending tags"
              /\ {themes[1].items[i] : i \in DOMAIN themes[1].items}
                   = FirstThreeSeen(tag_list)
              /\ Len(themes[1].items) = Cardinality(FirstThreeSeen(tag_list))

\* C18 witness: five tags occur once each, first seen in the order x, y,
\* robotics, omega1, w, and the trending line lists robotics, x, y
ThemesFirstSeenWitness ==
    /\ Past("themes")
    /\ AllTags(month_data.events) = <<"x", "y", "robotics", "omega1", "w">>
    /\ themes[1] = Theme("Trending tags", <<"robotics", "x", "y">>)

\* the stored rows get_events(start, end) is asked for: not archived, date
\* within the resolved range as strings
RowsInRange ==
    LET r == ResolveMonthRange(request.start_date, request.end_date, Today)
    IN {c \in Years \X (1..(MaxRows + 2)) :
           /\ c[2] \in DOMAIN shards[c[1]]
           /\ ~shards[c[1]][c[2]].archived
           /\ StrLeq(IsoFormat(r[1]), shards[c[1]][c[2]].date)
           /\ StrLeq(shards[c[1]][c[2]].date, IsoFormat(r[2]))}

\* the label an event adds to the sentiment tally
SentimentLabel(e) ==
    IF "sentiment" \in DOMAIN e.metadata THEN e.metadata["sentiment"]
    ELSE IF "tone" \in DOMAIN e.metadata THEN e.metadata["tone"]
    ELSE "neutral"

\* C19: stats.count is the number of stored rows that are not archived and
\* dated in [start, end], the events are those rows, the categories tally
\* and the sentiment tally each sum to count with every event counted under
\* its type and under its label (sentiment, else tone, else "neutral"), and
\* the tally of a tag is the number of times events carry it.
GatherStatsConsistent ==
    Past("gather") =>
        LET evs == month_data.events
            st == month_data.stats
        IN /\ st.count = Cardinality(RowsInRange)
           /\ Len(evs) = st.count
           /\ \A c \in RowsInRange : Count(evs, shards[c[1]][c[2]]) >= 1
           /\ SumOf(st.categories) = st.count
           /\ SumOf(st.sentiment_summary) = st.count
           /\ \A l \in DOMAIN st.sentiment_summary :
                st.sentiment_summary[l]
                  = Cardinality({i \in DOMAIN evs : SentimentLabel(evs[i]) = l})
           /\ \A c \in DOMAIN st.categories :
                st.categories[c]
                  = Cardinality({i \in DOMAIN evs :
                        evs[i].type = c
                        \/ (evs[i].type = "" /\ c = "uncategorized")})
           /\ \A i \in DOMAIN evs : \A j \in DOMAIN evs[i].tags :
                evs[i].tags[j] \in DOMAIN st.tags
           /\ \A t \in DOMAIN st.tags :
                st.tags[t] = Count(AllTags(evs), t)

\* C19 witness: three events were gathered, one labelled by sentiment, one
\* by tone and one "neutral", one of them without a type
GatherStatsWitness ==
    /\ Past("gather")
    /\ month_data.stats.count = 3
    /\ DOMAIN month_data.stats.sentiment_summary = {"calm", "tired", "neutral"}
    /\ "uncategorized" \in DOMAIN month_data.stats.categories

\* C20: every gathered event, dated YYYY-MM-DD or with a time of day, is
\* among the events of exactly one window, week_splits has one entry per
\* window and its counts sum to stats.count.
EveryEventInOneWindow ==
    Past("gather") =>
        LET r == ResolveMonthRange(request.start_date, request.end_date, Today)
            evs == month_data.events
            windows == WeekRanges(r[1], r[2], evs)
            splits == month_data.stats.week_splits
        IN /\ \A k \in DOMAIN evs :
                Cardinality({i \in DOMAIN windows :
                    Count(windows[i].events, evs[k]) >= 1}) = 1
           /\ Cardinality(DOMAIN splits) = Len(windows)
           /\ SumOf([l \in DOMAIN splits |-> splits[l].count])
                = month_data.stats.count

\* C21: with at least one bound given, the resolved range (from the start of
\* the first window to the end of the last one) has start <= end: a lone
\* start gives end = start + 30 days, a lone end gives start = end - 30
\* days, both bounds are returned as given, swapped when start > end.
ResolvedRangeOrdered ==
    (Past("gather") /\ (request.start_date # <<>> \/ request.end_date # <<>>)) =>
        LET s == request.start_date
            e == request.end_date
            lo == IF e = <<>> THEN s[1] ELSE IF s = <<>> THEN e[1] - 30
                  ELSE IF s[1] > e[1] THEN e[1] ELSE s[1]
            hi == IF e = <<>> THEN s[1] + 30 ELSE IF s = <<>> THEN e[1]
                  ELSE IF s[1] > e[1] THEN s[1] ELSE e[1]
            labels == DOMAIN month_data.stats.week_splits
        IN /\ lo <= hi
           /\ \E k \in labels : k[2] = 1 /\ k[3] = IsoFormat(lo)
           /\ \E k \in labels :
                /\ k[4] = IsoFormat(hi)
                /\ \A other \in labels : other[2] <= k[2]

\* C21 witness: only the start 2024-12-27 was given and the windows run from
\* it to 2025-01-26
ResolvedRangeWitness ==
    /\ Past("gather")
    /\ request = [start_date |-> <<Ordinal(2024, 12, 27)>>, end_date |-> <<>>]
    /\ \E k \in DOMAIN month_data.stats.week_splits :
         k[2] = 1 /\ k[3] = IsoFormatYmd(2024, 12, 27)
    /\ \E k \in DOMAIN month_data.stats.week_splits :
         k[2] = 5 /\ k[4] = IsoFormatYmd(2025, 1, 26)

\* C22: the themes list is never empty; it holds, in this order, the
\* trending-tags line when the events carry any tag, the motifs line with
\* the non-empty week arc texts in week order, the emotional-patterns line
\* with the sentiment (else tone) values in event order, and one "Progress
\* in" line per keyword of the table that occurs as a tag, in table order;
\* it is the single fallback line exactly when none of the four qualifies.
ThemesOrdered ==
    Past("themes") =>
        LET evs == month_data.events
            tagged == \E i \in DOMAIN evs : evs[i].tags # <<>>
            told == SelectSeq(weekly_arcs, LAMBDA w : w.arc.narrative.arc # "")
            motifs == [i \in DOMAIN told |-> told[i].arc.narrative.arc]
            moody == SelectSeq(evs, LAMBDA e :
                         DOMAIN e.metadata \cap {"sentiment", "tone"} # {})
            moods == [i \in DOMAIN moody |-> SentimentLabel(moody[i])]
            tracks == SelectSeq(<<"robotics", "omega1", "japanese", "bjj", "training">>,
                                LAMBDA k : \E i \in DOMAIN evs :
                                    Count(evs[i].tags, k) >= 1)
            kinds == (IF tagged THEN <<"Trending tags">> ELSE <<>>)
                     \o (IF motifs # <<>> THEN <<"Repeated motifs">> ELSE <<>>)
                     \o (IF moods # <<>> THEN <<"Emotional patterns">> ELSE <<>>)
                     \o [i \in DOMAIN tracks |-> "Progress in"]
            head == Len(kinds) - Len(tracks)
        IN /\ themes # <<>>
           /\ (kinds = <<>>) <=>
                 (\E i \in DOMAIN themes :
                     themes[i].kind = "No major themes detected.")
           /\ kinds = <<>> => themes = <<Theme("No major themes detected.", <<>>)>>
           /\ kinds # <<>> =>
                /\ [i \in DOMAIN themes |-> themes[i].kind] = kinds
                /\ \A i \in DOMAIN themes :
                     /\ themes[i].kind = "Repeated motifs" => themes[i].items = motifs
                     /\ themes[i].kind = "Emotional patterns" => themes[i].items = moods
                     /\ i > head => themes[i].items = <<tracks[i - head]>>

\* C22 witness: all four parts are present: trending tags, one motif, the
\* patterns tired and calm, and progress in robotics and omega1
ThemesOrderedWitness ==
    /\ Past("themes")
    /\ Len(themes) = 5
    /\ themes[1].kind = "Trending tags"
    /\ themes[2] = Theme("Repeated motifs", <<"weekly arc">>)
    /\ themes[3] = Theme("Emotional patterns", <<"tired", "calm">>)
    /\ themes[4] = Theme("Progress in", <<"robotics">>)
    /\ themes[5] = Theme("Progress in", <<"omega1">>)

\* C23: an epic is listed exactly when some gathered event carries one of
\* its tags, once; its progress count is the number of (event, tag) pairs
\* whose tag the mapping sends to it, so an event with two such tags counts
\* twice; its milestones are the titles of those pairs' events that have
\* one, in event order then tag order.
EpicsCountPairs ==
    Past("epics") =>
        LET evs == month_data.events
            epic_of == [t \in {"robotics", "omega1", "japanese", "bjj",
                               "finances", "relationships", "health", "career"} |->
                           IF t \in {"robotics", "omega1"} THEN "Robotics: Omega-1"
                           ELSE IF t = "japanese" THEN "Japanese Language"
                           ELSE IF t = "bjj" THEN "Brazilian Jiu-Jitsu"
                           ELSE IF t = "finances" THEN "Finances"
                           ELSE IF t = "relationships" THEN "Relationships"
                           ELSE IF t = "health" THEN "Health"
                           ELSE "Career"]
            width == 3
            \* position p stands for the pair (event i, tag j)
            ev(p) == ((p - 1) \div width) + 1
            tg(p) == ((p - 1) % width) + 1
            pairs(n) == SelectSeq([p \in 1..(Len(evs) * width) |-> p],
                            LAMBDA p : /\ tg(p) <= Len(evs[ev(p)].tags)
                                       /\ evs[ev(p)].tags[tg(p)] \in DOMAIN epic_of
                                       /\ epic_of[evs[ev(p)].tags[tg(p)]] = n)
            titled(n) == SelectSeq(pairs(n), LAMBDA p : evs[ev(p)].title # "")
        IN /\ \A i \in DOMAIN evs : Len(evs[i].tags) <= width
           /\ \A n \in {epic_of[t] : t \in DOMAIN epic_of} :
                Cardinality({k \in DOMAIN epics : epics[k].epic = n})
                  = IF pairs(n) # <<>> THEN 1 ELSE 0
           /\ \A k \in DOMAIN epics :
                /\ epics[k].progress
                     = <<ToString(Len(pairs(epics[k].epic))), " updates recorded.">>
                /\ epics[k].milestones
                     = [i \in DOMAIN titled(epics[k].epic) |->
                           evs[ev(titled(epics[k].epic)[i])].title]

\* C23 witness: events G, E (no title) and F were gathered; the robotics
\* epic counts five pairs, two of E and two of F, and the jiu-jitsu epic one
EpicsCountPairsWitness ==
    /\ Past("epics")
    /\ epics = <<[epic |-> "Robotics: Omega-1",
                  progress |-> <<"5", " updates recorded.">>,
                  milestones |-> <<"G", "F", "F">>],
                 [epic |-> "Brazilian Jiu-Jitsu",
                  progress |-> <<"1", " updates recorded.">>,
                  milestones |-> <<"F">>]>>

\* C24: the narrative's turning_points are the weeks' turning_points, joined
\* in week order; when there are none they are the titles of the first
\* three events of the month; climax is the first turning point, or "" when
\* there is none, and resolution is the fixed literal.
NarrativeTurningPoints ==
    Past("narrative") =>
        LET evs == month_data.events
            width == 2
            wk(p) == ((p - 1) \div width) + 1
            at(p) == ((p - 1) % width) + 1
            slots == SelectSeq([p \in 1..(Len(weekly_arcs) * width) |-> p],
                        LAMBDA p :
                          at(p) <= Len(weekly_arcs[wk(p)].arc.narrative.turning_points))
            found == [i \in DOMAIN slots |->
                        weekly_arcs[wk(slots[i])].arc.narrative.turning_points[at(slots[i])]]
            first == SelectSeq(SubSeq(evs, 1, IF Len(evs) < 3 THEN Len(evs) ELSE 3),
                               LAMBDA e : e.title # "")
            titles == [i \in DOMAIN first |-> first[i].title]
            tp == narrative.turning_points
        IN /\ \A k \in DOMAIN weekly_arcs :
                Len(weekly_arcs[k].arc.narrative.turning_points) <= width
           /\ found # <<>> => tp = found
           /\ found = <<>> => tp = titles
           /\ narrative.climax = IF tp = <<>> THEN "" ELSE tp[1]
           /\ narrative.resolution = "Trajectory set for next month."

\* C25: every list of events a collaborator receives during one
\* construct_month_arc call (weekly synthesizer, stitcher, drift auditor)
\* holds only events the range query of that call returned, none of them
\* archived, also when the query returned no events.
CollaboratorsSeeRangeOnly ==
    \A i \in DOMAIN calls :
        (/\ calls[i].who \in {"weekly", "stitcher", "auditor"}
         /\ calls[i].args.events.kind = "events") =>
            \A j \in DOMAIN calls[i].args.events.v :
                /\ Count(month_data.events, calls[i].args.events.v[j]) >= 1
                /\ ~calls[i].args.events.v[j].archived

\* the number of stored rows that are not archived
ActiveCount(sh) ==
    Cardinality({c \in Years \X (1..(MaxRows + 2)) :
        c[2] \in DOMAIN sh[c[1]] /\ ~sh[c[1]][c[2]].archived})

\* C26: a correct_event call that ends in the date parse error leaves every
\* shard as it was: the target row keeps its archived flag and no row is
\* appended.
CorrectParseFailureKeepsStore ==
    [][(call'.op = "correct" /\ ret' = DateParseError) =>
        (shards' = shards /\ files' = files)]_vars

\* C28: a correct_event call that returns the corrected event leaves the
\* number of rows that are not archived unchanged: one more row is stored,
\* the appended row is not archived, and exactly one row that was not
\* archived is now archived.
CorrectKeepsActiveCount ==
    [][(call'.op = "correct" /\ ret'.status = "ok") =>
        /\ ActiveCount(shards') = ActiveCount(shards)
        /\ TotalRows(shards') = TotalRows(shards) + 1
        /\ Cardinality({c \in Years \X (1..(MaxRows + 2)) :
               /\ c[2] \in DOMAIN shards[c[1]]
               /\ ~shards[c[1]][c[2]].archived
               /\ shards'[c[1]][c[2]].archived}) = 1]_vars

\* C30: after every call each row stored in the shard of year Y has a date
\* of calendar year Y, and get_events(year=Y, ...) returns the rows that
\* get_events(...) over all shards returns for dates of year Y.
ShardPlacement ==
    [][/\ \A y \in Years : \A i \in DOMAIN shards'[y] :
            FromIsoformat(shards'[y][i].date) # <<>>
            /\ FromIsoformat(shards'[y][i].date)[1] = y
       /\ (call'.op = "query" /\ call'.args.year # <<>>) =>
            ret'.value =
                SelectSeq(GetEvents(files, shards, <<>>, call'.args.start_date,
                                    call'.args.end_date, call'.args.tags,
                                    call'.args.include_archived),
                          LAMBDA e : FromIsoformat(e.date)[1] = call'.args.year[1])
      ]_vars

\* C30 witness: both shards hold rows and get_events(year=2025) returned
\* rows
ShardPlacementWitness ==
    /\ call.op = "query"
    /\ call.args.year = <<2025>>
    /\ ret.status = "ok"
    /\ Len(ret.value) >= 1
    /\ Len(shards[2024]) >= 1
    /\ Len(shards[2025]) >= 1

\* C27: once an add_event for year Y and a get_events(year=Y) have both
\* returned, the row the add_event appended is in shard Y (the case at
\* stake is the one where the file of year Y did not exist when the two
\* calls started).
QueryKeepsAddedRow ==
    \A p \in Procs, q \in Procs :
        (/\ p # q
         /\ proc[p].pc = "done" /\ proc[p].op = "add"
         /\ proc[p].res.status = "ok"
         /\ proc[q].pc = "done" /\ proc[q].op = "query"
         /\ proc[q].next = "query_ret"
         /\ proc[q].year = proc[p].year) =>
            Count(shards[proc[p].year], proc[p].ev) >= 1

\* the store after the call of caller record r, run alone on store st with
\* the shard files listed in order o
RunAlone(r, st, o) ==
    IF r.op = "add" THEN AfterAdd(st, r.ev)
    ELSE [files |-> st.files, shards |-> ArchiveOutcome(st.shards, o, r.id).shards]

\* C29: when an add_event or archive_event on a row of year A and one on a
\* row of year B # A have both returned, each having found rows in its
\* shard, shard A and shard B each hold what that call alone leaves there,
\* and the store is the one the two calls leave when run one after the
\* other.
WritersOnDistinctShards ==
    \A p \in Procs, q \in Procs :
        (/\ p # q
         /\ \A r \in {p, q} :
              /\ proc[r].pc = "done"
              /\ proc[r].op \in {"add", "archive"}
              /\ proc[r].res.status = "ok"
              /\ proc[r].buf # <<>>
         /\ proc[p].year # proc[q].year) =>
            LET st == CHOOSE c \in ConcStores : c.files = Years IN
            /\ \A r \in {p, q} :
                 shards[proc[r].year]
                   = IF proc[r].op = "add"
                     THEN Append(st.shards[proc[r].year], proc[r].ev)
                     ELSE [i \in DOMAIN st.shards[proc[r].year] |->
                             IF st.shards[proc[r].year][i].id = proc[r].id
                             THEN [st.shards[proc[r].year][i] EXCEPT !.archived = TRUE]
                             ELSE st.shards[proc[r].year][i]]
            /\ \E o1 \in GlobOrders(Years), o2 \in GlobOrders(Years) :
                 shards = RunAlone(proc[q], RunAlone(proc[p], st, o1), o2).shards

\* C29 witness: an add_event in 2024 and an archive_event of a row of 2025
\* have both returned, each having read its shard before the other wrote
WritersOnDistinctShardsWitness ==
    \E p \in Procs, q \in Procs :
        /\ proc[p].pc = "done" /\ proc[p].op = "add"
        /\ proc[p].res = Returned(EvA)
        /\ proc[q].pc = "done" /\ proc[q].op = "archive"
        /\ proc[q].res.status = "ok" /\ proc[q].year = 2025
        /\ proc[p].readAt < proc[q].wroteAt
        /\ proc[q].readAt < proc[p].wroteAt
        /\ Len(shards[2024]) = 2
        /\ \E i \in DOMAIN shards[2025] : shards[2025][i].archived

====
